---- MODULE Spec2Model ----
(***************************************************************************)
(* Ingestion and enrichment pipeline of through-your-letters:              *)
(*   UploadLetteringUseCase::execute  (application/upload_lettering)       *)
(*   RedisQueue                       (infrastructure/queue)               *)
(*   MlProcessor                      (workers/ml_processor.rs)            *)
(*   PendingAutoApproveWorker         (workers/pending_auto_approve.rs)    *)
(*   reject_lettering                 (handlers/admin.rs)                  *)
(*   RedisCache::get_or_fetch         (infrastructure/cache)               *)
(***************************************************************************)
EXTENDS Naturals, Integers, Sequences, FiniteSets, TLC

(* ------------------------------ bounds --------------------------------- *)

\* concurrent execute() calls; each call draws its own Uuid::now_v7()
NumCalls == 2

\* distinct decodable image byte sequences (0 is an undecodable input)
NumImages == 2

\* last instant of the modelled clock
MaxTime == 2

\* pending_auto_approve_minutes, scaled down (the code clamps it to >= 1)
StaleAfter == 1

\* pending_auto_approve_batch_size, scaled down (the code clamps it to >= 1)
BatchSize == 1

(* -------------------------- program constants -------------------------- *)

\* pending_auto_approve.rs: .bind("Street Discovery")
PromotionPlaceholder == "Street Discovery"

\* ml_processor.rs: "Handcrafted Lettering".to_string()
TertiaryPlaceholder == "Handcrafted Lettering"

NULL == "NULL"
\* an id with no row in table letterings
NoRow == [status |-> "NONE"]
\* MlProcessor holds no job
NoJob == [lettering_id |-> 0, image_url |-> <<>>]
\* no url yet
NoUrl == <<>>
\* no UPDATE of process_job has been sent for the job
NoUpdate == [palette |-> <<>>, style |-> "", confidence |-> 0,
             colorsOk |-> FALSE, styleOk |-> FALSE, dbOk |-> FALSE]

Calls == 1..NumCalls
Ids == Calls
ImageBytes == 0..NumImages

\* sizes of generate_thumbnails, in upload order
ThumbnailSizes == <<"small", "medium", "large">>

VARIABLES
  now,          \* database clock NOW()
  pc,           \* pc[c]: position of execute() call c
  image_data,   \* image_data[c]: request.image_data of call c
  image_url,    \* image_url[c]: url of the uploaded original, NULL before
  urls,         \* urls[c]: the `urls` vector of generate_thumbnails
  result,       \* result[c]: what execute() returned
  enq,          \* enq[c]: outcome of enqueue_ml_job, which execute() discards
  rows,         \* table letterings, by id
  storage,      \* keys present in the asset store
  queue,        \* redis list ml_jobs, head first
  wpc,          \* position of MlProcessor::start
  job,          \* the job MlProcessor holds
  hf_token,     \* MlProcessor.hf_token.is_some()
  published,    \* published[i]: PROCESSED messages sent per sender
  cpc,          \* cpc[p]: position of get_or_fetch caller p
  primary,      \* redis value at `key`, NULL when absent
  stale,        \* redis value at `key:stale`, NULL when absent
  lock,         \* redis key `key:lock` is present
  attempt,      \* attempt[p]: loop counter of the wait loop
  fetched,      \* fetched[p]: `result` of the winner's fetch_fn
  ret,          \* ret[p]: what get_or_fetch returned
  via,          \* via[p]: the return statement caller p left through
  fetches,      \* number of executions of fetch_fn so far
  degraded,     \* some redis operation has failed so far
  expiredEarly, \* the lock has expired while its holder was still populating
  path,         \* path[p]: the steps of get_or_fetch caller p has taken, in order
  holder,       \* the caller whose SET NX created the present lock, 0 when free
  clk,          \* redis clock, in seconds
  primaryExp,   \* instant at which `key` expires
  staleExp,     \* instant at which `key:stale` expires
  hfLog,        \* responses to the HuggingFace requests of the current job
  onnxLog,      \* results of the detector.detect_text calls of the current job
  detected,     \* detected_text_str of the current job, NULL before detection
  jobDone,      \* id and result of the last process_job that returned
  mlUpdate,     \* $2, $3, $5 of the last UPDATE of process_job, and what the
                \* colour extraction, the style classification and the
                \* UPDATE came to
  pushed,       \* jobs whose LPUSH completed, in the order of completion
  popped,       \* jobs returned by dequeue_ml_job, with the consumer, in order
  holding,      \* holding[w]: the job consumer w is processing
  outcome,      \* outcome[i]: how the processing of job i ended
  pinInput,     \* the value passed to PinCode::new, as its chars
  pinResult,    \* what PinCode::new returned
  lastPoll,     \* what the last dequeue_ml_job of MlProcessor::start returned
  scriptInput,  \* the text passed to detect_script, as its code points
  scriptResult, \* what detect_script returned
  upc,          \* upc[u]: position of upload_lettering request u
  gcached,      \* redis value at the gallery cache key, NULL when absent
  gresp,        \* letterings of the last gallery response
  greqs         \* gallery requests served so far

callVars == <<pc, image_data, image_url, urls, result, enq>>

pipelineVars == <<now, hf_token, pc, image_data, image_url, urls, result, enq,
                  rows, storage, queue, wpc, job, published>>

cacheVars == <<cpc, primary, stale, lock, attempt, fetched, ret, via, fetches,
               degraded, expiredEarly, path, holder, clk, primaryExp, staleExp>>

cascadeVars == <<hfLog, onnxLog, detected, jobDone, mlUpdate, lastPoll>>

queueVars == <<pushed, popped, holding, outcome>>

pinVars == <<pinInput, pinResult>>

galleryVars == <<upc, gcached, gresp, greqs>>

scriptVars == <<scriptInput, scriptResult>>

auxVars == <<queueVars, pinVars, galleryVars, scriptVars>>

vars == <<pipelineVars, cacheVars, cascadeVars, auxVars>>

(* ------------------------------ helpers -------------------------------- *)

\* Sha256 over request.image_data, hex formatted: injective on the inputs
Sha256Hex(b) == <<"sha256", b>>

\* a decoder that accepts any bytes
DecodableAlways(b) == TRUE

\* image::load_from_memory succeeds
Decodable(b) == b # 0

\* format!("letterings/{}/{}.webp", id, name); upload returns the key's url
StorageKey(id, name) == <<"letterings", id, name>>

\* Uuid::now_v7(): a fresh id per call
LetteringId(c) == c

Exists(i) == rows[i].status # "NONE"

\* SELECT ... FROM letterings WHERE image_hash = $1
find_by_image_hash(h) == {i \in Ids : Exists(i) /\ rows[i].image_hash = h}

\* the duplicate check of execute(): the lookup returned Some(existing)
IsDuplicateWithoutLookup(h) == FALSE

IsDuplicate(h) == find_by_image_hash(h) # {}

\* a table without the uniqueness of image_hash
ImageHashUnconstrained(h) == TRUE

\* the uniqueness of letterings.image_hash enforced by the table
ImageHashUnique(h) == \A i \in Ids : Exists(i) => rows[i].image_hash # h

\* urls[k] of the collected thumbnail urls
UrlAt(us, k) == IF k <= Len(us) THEN us[k] ELSE NoUrl

\* an INSERT that binds 'APPROVED' and a text
NewRowApproved(c) ==
  [ status           |-> "APPROVED",
    image_hash       |-> Sha256Hex(image_data[c]),
    image_url        |-> image_url[c],
    thumbnail_small  |-> UrlAt(urls[c], 1),
    thumbnail_medium |-> UrlAt(urls[c], 2),
    thumbnail_large  |-> UrlAt(urls[c], 3),
    detected_text    |-> "",
    ml               |-> NULL,
    created_at       |-> now ]

\* the Lettering built by execute() as INSERTed by create()
NewRow(c) ==
  [ status           |-> "PENDING",
    image_hash       |-> Sha256Hex(image_data[c]),
    image_url        |-> image_url[c],
    thumbnail_small  |-> UrlAt(urls[c], 1),
    thumbnail_medium |-> UrlAt(urls[c], 2),
    thumbnail_large  |-> UrlAt(urls[c], 3),
    detected_text    |-> NULL,
    ml               |-> NULL,
    created_at       |-> now ]

(* ------------------- UploadLetteringUseCase::execute ------------------- *)

\* hash, duplicate lookup, id, convert_to_webp
ExecuteStart(c, dbOk) ==
  /\ pc[c] = "start"
  /\ IF ~dbOk
       THEN /\ pc' = [pc EXCEPT ![c] = "done"]
            /\ result' = [result EXCEPT ![c] = "LookupFailure"]
       ELSE IF IsDuplicate(Sha256Hex(image_data[c]))
       THEN /\ pc' = [pc EXCEPT ![c] = "done"]
            /\ result' = [result EXCEPT ![c] = "DuplicateContent"]
       ELSE IF ~Decodable(image_data[c])
       THEN /\ pc' = [pc EXCEPT ![c] = "done"]
            /\ result' = [result EXCEPT ![c] = "InvalidImage"]
       ELSE /\ pc' = [pc EXCEPT ![c] = "upload"]
            /\ UNCHANGED result
  /\ UNCHANGED <<now, image_data, image_url, urls, enq, rows, hf_token, storage, queue, wpc, job, published>>
  /\ UNCHANGED cacheVars
  /\ UNCHANGED auxVars
  /\ UNCHANGED cascadeVars

\* the keys execute() uploads, in order: the original, then the thumbnails
AssetNames == <<"original">> \o ThumbnailSizes

\* the urls vector after the first n uploads of generate_thumbnails succeeded
ThumbnailUrls(c, n) ==
  [k \in 1..n |-> StorageKey(LetteringId(c), ThumbnailSizes[k])]

\* execute() goes on to create() whatever the uploads returned
AssetsUploadedUnchecked(nOk) == TRUE

\* every `?` of the uploads passed: the original and the three thumbnails
AssetsUploaded(nOk) == nOk = Len(AssetNames)

\* storage.upload of the original, then generate_thumbnails: the first nOk
\* uploads succeed and the next one, if any, fails (each `?` returns early)
UploadAssets(c, nOk) ==
  /\ pc[c] = "upload"
  /\ storage' = storage \cup
       {StorageKey(LetteringId(c), AssetNames[k]) : k \in 1..nOk}
  /\ image_url' = [image_url EXCEPT ![c] =
                      IF nOk >= 1 THEN StorageKey(LetteringId(c), "original") ELSE @]
  /\ urls' = [urls EXCEPT ![c] = ThumbnailUrls(c, IF nOk >= 1 THEN nOk - 1 ELSE 0)]
  /\ IF AssetsUploaded(nOk)
       THEN /\ pc' = [pc EXCEPT ![c] = "create"]
            /\ UNCHANGED result
       ELSE /\ pc' = [pc EXCEPT ![c] = "done"]
            /\ result' = [result EXCEPT ![c] = "StorageFailure"]
  /\ UNCHANGED <<now, image_data, enq, rows, hf_token, queue, wpc, job, published>>
  /\ UNCHANGED cacheVars
  /\ UNCHANGED auxVars
  /\ UNCHANGED cascadeVars

\* repository.create(&lettering)
Create(c, dbOk) ==
  /\ pc[c] = "create"
  /\ IF dbOk /\ ImageHashUnique(Sha256Hex(image_data[c]))
       THEN /\ rows' = [rows EXCEPT ![LetteringId(c)] = NewRow(c)]
            /\ pc' = [pc EXCEPT ![c] = "enqueue"]
            /\ UNCHANGED result
       ELSE /\ pc' = [pc EXCEPT ![c] = "done"]
            /\ result' = [result EXCEPT ![c] = "PersistFailure"]
            /\ UNCHANGED rows
  /\ UNCHANGED <<now, image_data, image_url, urls, enq, hf_token, storage, queue, wpc, job, published>>
  /\ UNCHANGED cacheVars
  /\ UNCHANGED auxVars
  /\ UNCHANGED cascadeVars

(* ------------------------------ RedisQueue ----------------------------- *)

\* serde_json::to_string(&job): the JSON object, as its keys and values in
\* the order of the fields of MlJob
MlJobToJson(j) == <<"lettering_id", j.lettering_id, "image_url", j.image_url>>

\* serde_json::from_str::<MlJob>(&json)
MlJobFromJson(s) == [lettering_id |-> s[2], image_url |-> s[4]]

\* RPUSH: the element goes to the tail of the list
PushTail(q, x) == Append(q, x)

\* LPUSH ml_jobs: the element goes to the head of the list
lpush(q, x) == <<x>> \o q

\* a read of the tail that leaves it on the list
BrpopKeeps(q) == q

\* the list BRPOP ml_jobs leaves behind: the tail is removed
brpop_rest(q) == SubSeq(q, 1, Len(q) - 1)

\* BRPOP ml_jobs, then from_str: the job at the tail of the list
dequeue_ml_job(q) == MlJobFromJson(q[Len(q)])

\* execute() returning the error of enqueue_ml_job
EnqueueResultPropagated(ok) == IF ok THEN "Ok" ELSE "QueueUnavailable"

\* let _ = ..enqueue_ml_job(..).await; Ok(saved): the outcome is discarded
EnqueueResult(ok) == "Ok"

\* queue.enqueue_ml_job(MlJob {lettering_id, image_url}), then Ok(saved)
Enqueue(c, ok) ==
  /\ pc[c] = "enqueue"
  /\ IF ok
       THEN /\ queue' = lpush(queue, MlJobToJson([lettering_id |-> LetteringId(c),
                                                    image_url |-> image_url[c]]))
            /\ enq' = [enq EXCEPT ![c] = "ok"]
       ELSE /\ enq' = [enq EXCEPT ![c] = "failed"]
            /\ UNCHANGED queue
  /\ pc' = [pc EXCEPT ![c] = "done"]
  /\ result' = [result EXCEPT ![c] = EnqueueResult(ok)]
  /\ UNCHANGED <<now, image_data, image_url, urls, rows, hf_token, storage, wpc, job, published>>
  /\ UNCHANGED cacheVars
  /\ UNCHANGED auxVars
  /\ UNCHANGED cascadeVars

(* ------------------------------ MlProcessor ---------------------------- *)

\* outcomes of huggingface_ocr: Ok(text), Ok("") or Err
HfOutcomes ==
  { [ok |-> TRUE,  text |-> "Shop Open Daily"],
    [ok |-> TRUE,  text |-> ""],
    [ok |-> FALSE, text |-> ""] }

\* outcomes of OnnxTextDetector::detect_text: Ok(result) or Err
OnnxOutcomes ==
  { [ok |-> TRUE,  detected_text |-> "BAKERY",           confidence |-> 1],
    [ok |-> TRUE,  detected_text |-> "No text detected", confidence |-> 0],
    [ok |-> TRUE,  detected_text |-> "BAKERY",           confidence |-> 0],
    [ok |-> TRUE,  detected_text |-> "",                 confidence |-> 0],
    [ok |-> FALSE, detected_text |-> "",                 confidence |-> 0] }

\* text.trim().is_empty() on the modelled texts
TrimIsEmpty(t) == t \in {"", " "}

\* a cascade that never takes the primary tier's text
DetectTextIgnoringPrimary(token, hf, onnx) ==
  IF onnx.ok /\ onnx.confidence > 0 THEN onnx.detected_text ELSE TertiaryPlaceholder

\* a cascade without its last resort
DetectTextWithoutDefault(token, hf, onnx) ==
  IF token /\ hf.ok /\ ~TrimIsEmpty(hf.text)
    THEN hf.text
    ELSE onnx.detected_text

\* a cascade that takes whatever text the secondary tier answers with
DetectTextOnnxUnguarded(token, hf, onnx) ==
  IF token /\ hf.ok /\ ~TrimIsEmpty(hf.text)
    THEN hf.text
  ELSE IF onnx.ok
    THEN onnx.detected_text
  ELSE TertiaryPlaceholder

\* HuggingFace (if a token is configured) -> ONNX -> default string
detect_text_with_fallback(token, hf, onnx) ==
  IF token /\ hf.ok /\ ~TrimIsEmpty(hf.text)
    THEN hf.text
  ELSE IF /\ onnx.ok
          /\ onnx.detected_text # ""
          /\ onnx.detected_text # "No text detected"
          /\ onnx.confidence > 0
    THEN onnx.detected_text
  ELSE TertiaryPlaceholder

\* the WHERE clause of the UPDATE of process_job: WHERE id = $6
MlUpdateMatches(i, id) == Exists(i) /\ i = id

\* UPDATE letterings SET detected_text = $1, ml_* = .., status = 'APPROVED'
MlUpdate(id, text) ==
  [i \in Ids |->
     IF MlUpdateMatches(i, id)
       THEN [rows[i] EXCEPT !.detected_text = text,
                            !.ml = "ENRICHED",
                            !.status = "APPROVED"]
       ELSE rows[i]]

\* a loop that ends with the first error it meets
StopsOnError(res) == IF res = "Err" THEN "stopped" ELSE "poll"

\* start(): whatever dequeue_ml_job or process_job returned, the loop sleeps
\* 500 ms and polls again
NextIteration(res) == "poll"

\* start(): Ok(Some(job)) from dequeue_ml_job
DequeueMlJob ==
  /\ wpc = "poll"
  /\ queue # <<>>
  /\ job' = dequeue_ml_job(queue)
  /\ queue' = brpop_rest(queue)
  /\ wpc' = "process"
  /\ lastPoll' = "job"
  /\ UNCHANGED <<now, hf_token, rows, storage, published>>
  /\ UNCHANGED callVars
  /\ UNCHANGED cacheVars
  /\ UNCHANGED auxVars
  /\ UNCHANGED <<hfLog, onnxLog, detected, jobDone, mlUpdate>>

\* start(): Ok(None) from dequeue_ml_job, BRPOP timed out on an empty list
DequeueNone ==
  /\ wpc = "poll"
  /\ queue = <<>>
  /\ lastPoll' = "empty"
  /\ wpc' = NextIteration("None")
  /\ UNCHANGED <<now, hf_token, rows, storage, queue, job, published>>
  /\ UNCHANGED callVars
  /\ UNCHANGED cacheVars
  /\ UNCHANGED auxVars
  /\ UNCHANGED <<hfLog, onnxLog, detected, jobDone, mlUpdate>>

\* start(): Err from dequeue_ml_job, the connection or the BRPOP failed
DequeueError ==
  /\ wpc = "poll"
  /\ lastPoll' = "error"
  /\ wpc' = NextIteration("Err")
  /\ UNCHANGED <<now, hf_token, rows, storage, queue, job, published>>
  /\ UNCHANGED callVars
  /\ UNCHANGED cacheVars
  /\ UNCHANGED auxVars
  /\ UNCHANGED <<hfLog, onnxLog, detected, jobDone, mlUpdate>>

\* how one process_job can go: the image fetch fails, the UPDATE fails, or
\* both succeed with some outcome of the two detection tiers
JobOutcomes ==
  {[fetchOk |-> FALSE, dbOk |-> TRUE, hf |-> h, onnx |-> o] :
     h \in {CHOOSE x \in HfOutcomes : ~x.ok}, o \in {CHOOSE x \in OnnxOutcomes : ~x.ok}}
  \cup
  {[fetchOk |-> TRUE, dbOk |-> FALSE, hf |-> h, onnx |-> o] :
     h \in {CHOOSE x \in HfOutcomes : ~x.ok}, o \in {CHOOSE x \in OnnxOutcomes : ~x.ok}}
  \cup
  {[fetchOk |-> TRUE, dbOk |-> TRUE, hf |-> h, onnx |-> o] :
     h \in HfOutcomes, o \in OnnxOutcomes}

\* process_job: image fetch, detection, UPDATE, broadcast
ProcessJob(fetchOk, hf, onnx, dbOk) ==
  /\ wpc = "process"
  /\ IF fetchOk /\ dbOk
       THEN /\ rows' = MlUpdate(job.lettering_id,
                                detect_text_with_fallback(hf_token, hf, onnx))
            /\ published' = [published EXCEPT ![job.lettering_id].ml = @ + 1]
       ELSE UNCHANGED <<rows, published>>
  /\ wpc' = "poll"
  /\ job' = NoJob
  /\ UNCHANGED <<now, hf_token, storage, queue>>
  /\ UNCHANGED callVars
  /\ UNCHANGED cacheVars
  /\ UNCHANGED auxVars
  /\ UNCHANGED cascadeVars

(* -------------------- MlProcessor, one step at a time ------------------ *)

\* for attempt in 0..3
MaxHfAttempts == 3

\* what one POST to the inference API can come back with: a status and, for
\* a 200, whether the body parses as JSON and the generated_text it carries
\* (absent generated_text is "" by unwrap_or("")); status 0 is a send() error
HfResponses ==
  { [status |-> 200, json |-> TRUE,  text |-> "Shop Open Daily"],
    [status |-> 200, json |-> TRUE,  text |-> ""],
    [status |-> 200, json |-> TRUE,  text |-> " "],
    [status |-> 200, json |-> FALSE, text |-> ""],
    [status |-> 503, json |-> FALSE, text |-> ""],
    [status |-> 401, json |-> FALSE, text |-> ""],
    [status |-> 403, json |-> FALSE, text |-> ""],
    [status |-> 429, json |-> FALSE, text |-> ""],
    [status |-> 500, json |-> FALSE, text |-> ""],
    [status |-> 0,   json |-> FALSE, text |-> ""] }

\* a loop that goes round again after any response but a 200
HfRetriesAnyFailure(log) ==
  /\ log # <<>>
  /\ log[Len(log)].status # 200
  /\ Len(log) < MaxHfAttempts

\* a loop that goes round again after every 503
HfRetriesUnbounded(log) ==
  /\ log # <<>>
  /\ log[Len(log)].status = 503

\* the loop of huggingface_ocr goes round again: a 503 before the last attempt
HfRetries(log) ==
  /\ log # <<>>
  /\ log[Len(log)].status = 503
  /\ Len(log) < MaxHfAttempts

\* what huggingface_ocr returns after the responses in log: Ok(text) or Err
huggingface_ocr(log) ==
  IF log # <<>> /\ log[Len(log)].status = 200 /\ log[Len(log)].json
    THEN [ok |-> TRUE,  text |-> log[Len(log)].text]
    ELSE [ok |-> FALSE, text |-> ""]

\* Ok(text) if !text.trim().is_empty(): detect_text_with_fallback returns text
HfUsable(log) == huggingface_ocr(log).ok /\ ~TrimIsEmpty(huggingface_ocr(log).text)

\* an outcome of detect_text that is never consulted
NoOnnx == [ok |-> FALSE, detected_text |-> "", confidence |-> 0]

\* a worker that puts a failed job back on the list
RetryFailedJob(q, j) == lpush(q, MlJobToJson(j))

\* start(): a job whose process_job returned Err is logged and lost
DropFailedJob(q, j) == q

\* how the image fetch of process_job can go
FetchOutcomes == {"ok", "send_error", "non_2xx", "body_error", "empty_body"}

\* a cascade that starts at the primary tier whatever the configuration
FirstTierAlwaysPrimary(token) == "hf"

\* Step 1 of detect_text_with_fallback: if self.hf_token.is_some()
FirstTier(token) == IF token THEN "hf" ELSE "onnx"

\* process_job, lines 63-81: client.get(image_url), status, bytes
FetchImage(o) ==
  /\ wpc = "process"
  /\ hfLog' = <<>>
  /\ onnxLog' = <<>>
  /\ detected' = NULL
  /\ mlUpdate' = NoUpdate
  /\ UNCHANGED lastPoll
  /\ IF o = "ok"
       THEN /\ wpc' = FirstTier(hf_token)
            /\ UNCHANGED <<job, jobDone, queue>>
       ELSE /\ wpc' = NextIteration("Err")
            /\ jobDone' = [id |-> job.lettering_id, res |-> "Err"]
            /\ queue' = DropFailedJob(queue, job)
            /\ job' = NoJob
  /\ UNCHANGED <<now, hf_token, rows, storage, published>>
  /\ UNCHANGED callVars
  /\ UNCHANGED cacheVars
  /\ UNCHANGED auxVars

\* one iteration of the loop of huggingface_ocr
HfRequest(r) ==
  /\ wpc = "hf"
  /\ hfLog' = Append(hfLog, r)
  /\ IF HfRetries(hfLog')
       THEN UNCHANGED <<wpc, detected>>
       ELSE IF HfUsable(hfLog')
       THEN /\ detected' = detect_text_with_fallback(hf_token, huggingface_ocr(hfLog'), NoOnnx)
            /\ wpc' = "persist"
       ELSE /\ wpc' = "onnx"
            /\ UNCHANGED detected
  /\ UNCHANGED <<now, hf_token, rows, storage, queue, job, published, onnxLog, jobDone, mlUpdate, lastPoll>>
  /\ UNCHANGED callVars
  /\ UNCHANGED cacheVars
  /\ UNCHANGED auxVars

\* Step 2 and 3 of detect_text_with_fallback
OnnxDetect(o) ==
  /\ wpc = "onnx"
  /\ onnxLog' = Append(onnxLog, o)
  /\ detected' = detect_text_with_fallback(hf_token, huggingface_ocr(hfLog), o)
  /\ wpc' = "persist"
  /\ UNCHANGED <<now, hf_token, rows, storage, queue, job, published, hfLog, jobDone, mlUpdate, lastPoll>>
  /\ UNCHANGED callVars
  /\ UNCHANGED cacheVars
  /\ UNCHANGED auxVars

\* a broadcast that does not depend on the UPDATE
BroadcastsSentAlways(dbOk) == 1

\* PROCESSED messages process_job sends: the `?` after the UPDATE returns
\* before the broadcast when the UPDATE failed
BroadcastsSent(dbOk) == IF dbOk THEN 1 ELSE 0

\* outcomes of OnnxTextDetector::classify_style: Ok of the disabled detector,
\* Ok of the heuristic (confidence 0.75, in hundredths), or Err
StyleOutcomes ==
  { [ok |-> TRUE,  style |-> "unknown",  confidence |-> 0],
    [ok |-> TRUE,  style |-> "graffiti", confidence |-> 75],
    [ok |-> FALSE, style |-> "",         confidence |-> 0] }

\* a match that keeps whatever the classifier handed back
ClassifyStyleUnchecked(c) == [style |-> c.style, confidence |-> c.confidence]

\* process_job step 3: Ok(c) => (c.style, c.confidence), Err => ("unknown", 0.0)
ClassifyStyle(c) ==
  IF c.ok
    THEN [style |-> c.style, confidence |-> c.confidence]
    ELSE [style |-> "unknown", confidence |-> 0]

\* extract_colors: the most frequent quantised colours of a decodable image,
\* vec![] when image::load_from_memory fails
extract_colors(decoded) == IF decoded THEN <<"#E0C0A0", "#202020">> ELSE <<>>

\* process_job, lines 86-124: colours, style, the UPDATE and the broadcast
Persist(dbOk, decoded, c) ==
  /\ wpc = "persist"
  /\ mlUpdate' = [palette    |-> extract_colors(decoded),
                  style      |-> ClassifyStyle(c).style,
                  confidence |-> ClassifyStyle(c).confidence,
                  colorsOk   |-> decoded,
                  styleOk    |-> c.ok,
                  dbOk       |-> dbOk]
  /\ published' = [published EXCEPT ![job.lettering_id].ml = @ + BroadcastsSent(dbOk)]
  /\ IF dbOk
       THEN /\ rows' = MlUpdate(job.lettering_id, detected)
            /\ jobDone' = [id |-> job.lettering_id, res |-> "Ok"]
            /\ UNCHANGED queue
       ELSE /\ jobDone' = [id |-> job.lettering_id, res |-> "Err"]
            /\ queue' = DropFailedJob(queue, job)
            /\ UNCHANGED rows
  /\ wpc' = NextIteration(jobDone'.res)
  /\ job' = NoJob
  /\ UNCHANGED <<now, hf_token, storage, hfLog, onnxLog, detected, lastPoll>>
  /\ UNCHANGED callVars
  /\ UNCHANGED cacheVars
  /\ UNCHANGED auxVars

(* ------------------------ PendingAutoApproveWorker --------------------- *)

\* the CTE without its status filter
IsStaleAnyStatus(i) ==
  /\ Exists(i)
  /\ rows[i].created_at + StaleAfter < now

\* the CTE selecting status = 'APPROVED'
IsStaleWrongStatus(i) ==
  /\ Exists(i)
  /\ rows[i].status = "APPROVED"
  /\ rows[i].created_at + StaleAfter < now

\* WHERE status = 'PENDING' AND created_at < NOW() - ($1 * INTERVAL '1 minute')
IsStale(i) ==
  /\ Exists(i)
  /\ rows[i].status = "PENDING"
  /\ rows[i].created_at + StaleAfter < now

StaleIds == {i \in Ids : IsStale(i)}

Min(a, b) == IF a < b THEN a ELSE b

\* the CTE without its LIMIT
StaleBatchesUnlimited == {StaleIds}

\* ORDER BY created_at ASC LIMIT $2: the possible results of the CTE `stale`
StaleBatches ==
  { S \in SUBSET StaleIds :
      /\ Cardinality(S) = Min(BatchSize, Cardinality(StaleIds))
      /\ \A s \in S, t \in StaleIds \ S : rows[s].created_at <= rows[t].created_at }

\* SET detected_text = $3, status = 'APPROVED'
PromoteOverwriting(r) ==
  [r EXCEPT !.detected_text = PromotionPlaceholder,
            !.status = "APPROVED"]

\* SET detected_text = COALESCE(detected_text, $3), status = 'APPROVED'
Promote(r) ==
  [r EXCEPT !.detected_text = IF @ = NULL THEN PromotionPlaceholder ELSE @,
            !.status = "APPROVED"]

\* one iteration of start(): the UPDATE .. RETURNING id, then one send per id
Sweep(S) ==
  /\ S \in StaleBatches
  /\ rows' = [i \in Ids |-> IF i \in S THEN Promote(rows[i]) ELSE rows[i]]
  /\ published' = [i \in Ids |->
                     IF i \in S THEN [published[i] EXCEPT !.sweep = @ + 1]
                                ELSE published[i]]
  /\ UNCHANGED <<now, hf_token, storage, queue, wpc, job>>
  /\ UNCHANGED callVars
  /\ UNCHANGED cacheVars
  /\ UNCHANGED auxVars
  /\ UNCHANGED cascadeVars

(* ------------------------------ moderation ----------------------------- *)

\* admin.rs reject_lettering: SET status = 'REJECTED' .. WHERE id = $1
RejectLettering(i) ==
  /\ Exists(i)
  /\ rows' = [rows EXCEPT ![i].status = "REJECTED"]
  /\ UNCHANGED <<now, hf_token, storage, queue, wpc, job, published>>
  /\ UNCHANGED callVars
  /\ UNCHANGED cacheVars
  /\ UNCHANGED auxVars
  /\ UNCHANGED cascadeVars

(* -------------------------------- clock -------------------------------- *)

Tick ==
  /\ now < MaxTime
  /\ now' = now + 1
  /\ UNCHANGED <<hf_token, rows, storage, queue, wpc, job, published>>
  /\ UNCHANGED callVars
  /\ UNCHANGED cacheVars
  /\ UNCHANGED auxVars
  /\ UNCHANGED cascadeVars

(* ------------------------ RedisCache::get_or_fetch --------------------- *)

\* number of concurrent get_or_fetch calls on the one key
NumCallers == 2

\* LOCK_MAX_RETRIES (60 in redis_cache.rs), scaled down
LOCK_MAX_RETRIES == 2

Callers == 1..NumCallers

\* what fetch_fn can return: a value of the origin, or its error
FetchResults == {"v1", "v2", "Err"}

\* positions between winning the lock and returning
PopulatingStates == {"winner_fetch", "set_primary", "set_stale", "release"}

Populating(p) == cpc[p] \in PopulatingStates

\* a SET that ignores NX
LockAcquiredAlways(present) == TRUE

\* SET lock_key 1 NX EX 10: Some("OK") only if the key was absent
LockAcquired(present) == ~present

\* a lookup that never finds the key
CacheHitNever(v) == FALSE

\* self.get(key) is Ok(Some(cached)) when the key holds a value, Ok(None)
\* when it does not
CacheHit(v) == v # NULL

\* an initial get whose error ends the call
GetErrorReturned == "done"

\* an initial get whose error is taken for a miss
GetErrorAsMiss == "lock"

\* Err(e) of the initial get: warn, then return fetch_fn().await
GetErrorNext == "direct_bypass"

\* Step 1: self.get(key)
CacheGet(p, ok) ==
  /\ cpc[p] = "get"
  /\ IF ~ok
       THEN /\ cpc' = [cpc EXCEPT ![p] = GetErrorNext]
            /\ degraded' = TRUE
            /\ path' = [path EXCEPT ![p] = Append(@, "get_err")]
            /\ UNCHANGED <<ret, via>>
       ELSE IF CacheHit(primary)
       THEN /\ cpc' = [cpc EXCEPT ![p] = "done"]
            /\ ret' = [ret EXCEPT ![p] = primary]
            /\ via' = [via EXCEPT ![p] = "hit"]
            /\ path' = [path EXCEPT ![p] = Append(@, "get_hit")]
            /\ UNCHANGED degraded
       ELSE /\ cpc' = [cpc EXCEPT ![p] = "lock"]
            /\ path' = [path EXCEPT ![p] = Append(@, "get_miss")]
            /\ UNCHANGED <<ret, via, degraded>>
  /\ UNCHANGED <<primary, stale, lock, attempt, fetched, fetches, expiredEarly>>
  /\ UNCHANGED <<holder, clk, primaryExp, staleExp>>
  /\ UNCHANGED pipelineVars
  /\ UNCHANGED auxVars
  /\ UNCHANGED cascadeVars

\* Step 2: the connection, then SET NX EX; o is "ok", "conn_err" or "cmd_err"
TryLock(p, o) ==
  /\ cpc[p] = "lock"
  /\ IF o = "conn_err"
       THEN /\ cpc' = [cpc EXCEPT ![p] = "direct_bypass"]
            /\ degraded' = TRUE
            /\ path' = [path EXCEPT ![p] = Append(@, "conn_err")]
            /\ UNCHANGED <<lock, holder>>
       ELSE IF o = "cmd_err"
       THEN /\ cpc' = [cpc EXCEPT ![p] = "poll"]
            /\ degraded' = TRUE
            /\ path' = [path EXCEPT ![p] = Append(@, "lock_err")]
            /\ UNCHANGED <<lock, holder>>
       ELSE IF LockAcquired(lock)
       THEN /\ cpc' = [cpc EXCEPT ![p] = "winner_fetch"]
            /\ lock' = TRUE
            /\ holder' = p
            /\ path' = [path EXCEPT ![p] = Append(@, "lock_won")]
            /\ UNCHANGED degraded
       ELSE /\ cpc' = [cpc EXCEPT ![p] = "poll"]
            /\ path' = [path EXCEPT ![p] = Append(@, "lock_busy")]
            /\ UNCHANGED <<lock, holder, degraded>>
  /\ UNCHANGED <<primary, stale, attempt, fetched, ret, via, fetches, expiredEarly>>
  /\ UNCHANGED <<clk, primaryExp, staleExp>>
  /\ UNCHANGED pipelineVars
  /\ UNCHANGED auxVars
  /\ UNCHANGED cascadeVars

\* a winner that writes whatever fetch_fn returned
WinnerAlwaysWrites(v) == "set_primary"

\* if let Ok(value) = &result { set key; set stale_key }: an Err result goes
\* straight to the release of the lock
WinnerNext(v) == IF v = "Err" THEN "release" ELSE "set_primary"

\* lock acquired: let result = fetch_fn().await
WinnerFetch(p, v) ==
  /\ cpc[p] = "winner_fetch"
  /\ fetches' = fetches + 1
  /\ fetched' = [fetched EXCEPT ![p] = v]
  /\ cpc' = [cpc EXCEPT ![p] = WinnerNext(v)]
  /\ path' = [path EXCEPT ![p] = Append(@, "fetch")]
  /\ UNCHANGED <<primary, stale, lock, attempt, ret, via, degraded, expiredEarly>>
  /\ UNCHANGED <<holder, clk, primaryExp, staleExp>>
  /\ UNCHANGED pipelineVars
  /\ UNCHANGED auxVars
  /\ UNCHANGED cascadeVars

\* the ttl argument of get_or_fetch, in seconds (GALLERY_CACHE_TTL)
Ttl == 300

\* STALE_EXTENSION_SECONDS
STALE_EXTENSION_SECONDS == 60

\* EX of the SET of `key`
PrimaryTtl(ttl) == ttl

\* a stale copy written with the ttl of the primary copy
StaleTtlSame(ttl) == ttl

\* EX of the SET of `key:stale`: ttl + STALE_EXTENSION_SECONDS
StaleTtl(ttl) == ttl + STALE_EXTENSION_SECONDS

\* self.set(key, value, ttl): a failure is logged
SetPrimary(p, ok) ==
  /\ cpc[p] = "set_primary"
  /\ IF ok THEN /\ primary' = fetched[p]
                /\ primaryExp' = clk + PrimaryTtl(Ttl)
                /\ UNCHANGED degraded
           ELSE /\ degraded' = TRUE
                /\ UNCHANGED <<primary, primaryExp>>
  /\ cpc' = [cpc EXCEPT ![p] = "set_stale"]
  /\ path' = [path EXCEPT ![p] = Append(@, IF ok THEN "set_primary" ELSE "set_primary_err")]
  /\ UNCHANGED <<stale, lock, attempt, fetched, ret, via, fetches, expiredEarly>>
  /\ UNCHANGED <<holder, clk, staleExp>>
  /\ UNCHANGED pipelineVars
  /\ UNCHANGED auxVars
  /\ UNCHANGED cascadeVars

\* self.set(&stale_key, value, ttl + STALE_EXTENSION_SECONDS): a failure is logged
SetStale(p, ok) ==
  /\ cpc[p] = "set_stale"
  /\ IF ok THEN /\ stale' = fetched[p]
                /\ staleExp' = clk + StaleTtl(Ttl)
                /\ UNCHANGED degraded
           ELSE /\ degraded' = TRUE
                /\ UNCHANGED <<stale, staleExp>>
  /\ cpc' = [cpc EXCEPT ![p] = "release"]
  /\ path' = [path EXCEPT ![p] = Append(@, IF ok THEN "set_stale" ELSE "set_stale_err")]
  /\ UNCHANGED <<primary, lock, attempt, fetched, ret, via, fetches, expiredEarly>>
  /\ UNCHANGED <<holder, clk, primaryExp>>
  /\ UNCHANGED pipelineVars
  /\ UNCHANGED auxVars
  /\ UNCHANGED cascadeVars

\* conn.del(&lock_key), then return result
ReleaseLock(p, ok) ==
  /\ cpc[p] = "release"
  /\ IF ok THEN /\ lock' = FALSE
                /\ holder' = 0
                /\ UNCHANGED degraded
           ELSE /\ degraded' = TRUE
                /\ UNCHANGED <<lock, holder>>
  /\ cpc' = [cpc EXCEPT ![p] = "done"]
  /\ ret' = [ret EXCEPT ![p] = fetched[p]]
  /\ via' = [via EXCEPT ![p] = "winner"]
  /\ path' = [path EXCEPT ![p] = Append(@, IF ok THEN "del" ELSE "del_err")]
  /\ UNCHANGED <<primary, stale, attempt, fetched, fetches, expiredEarly>>
  /\ UNCHANGED <<clk, primaryExp, staleExp>>
  /\ UNCHANGED pipelineVars
  /\ UNCHANGED auxVars
  /\ UNCHANGED cascadeVars

\* a wait loop that goes on after an error of the store
PollErrorRetried == "poll"

\* Err(e) in the wait loop: break
PollErrorNext == "read_stale"

\* Step 3: one iteration of the wait loop: sleep, then self.get(key)
Poll(p, ok) ==
  /\ cpc[p] = "poll"
  /\ attempt[p] < LOCK_MAX_RETRIES
  /\ IF ~ok
       THEN /\ cpc' = [cpc EXCEPT ![p] = PollErrorNext]
            /\ degraded' = TRUE
            /\ path' = [path EXCEPT ![p] = Append(@, "poll_err")]
            /\ UNCHANGED <<attempt, ret, via>>
       ELSE IF primary # NULL
       THEN /\ cpc' = [cpc EXCEPT ![p] = "done"]
            /\ ret' = [ret EXCEPT ![p] = primary]
            /\ via' = [via EXCEPT ![p] = "poll"]
            /\ path' = [path EXCEPT ![p] = Append(@, "poll_hit")]
            /\ UNCHANGED <<attempt, degraded>>
       ELSE /\ attempt' = [attempt EXCEPT ![p] = @ + 1]
            /\ cpc' = [cpc EXCEPT ![p] =
                         IF attempt[p] + 1 = LOCK_MAX_RETRIES THEN "read_stale" ELSE "poll"]
            /\ path' = [path EXCEPT ![p] = Append(@, "poll_miss")]
            /\ UNCHANGED <<ret, via, degraded>>
  /\ UNCHANGED <<primary, stale, lock, fetched, fetches, expiredEarly>>
  /\ UNCHANGED <<holder, clk, primaryExp, staleExp>>
  /\ UNCHANGED pipelineVars
  /\ UNCHANGED auxVars
  /\ UNCHANGED cascadeVars

\* a stale read whose value is never used
StaleIgnored(ok, v) == FALSE

\* self.get(&stale_key) is Ok(Some(stale))
StaleServed(ok, v) == ok /\ v # NULL

\* Step 4: self.get(&stale_key)
ReadStale(p, ok) ==
  /\ cpc[p] = "read_stale"
  /\ IF StaleServed(ok, stale)
       THEN /\ cpc' = [cpc EXCEPT ![p] = "done"]
            /\ ret' = [ret EXCEPT ![p] = stale]
            /\ via' = [via EXCEPT ![p] = "stale"]
            /\ path' = [path EXCEPT ![p] = Append(@, "stale_hit")]
            /\ UNCHANGED degraded
       ELSE /\ cpc' = [cpc EXCEPT ![p] = "direct_last"]
            /\ degraded' = (degraded \/ ~ok)
            /\ path' = [path EXCEPT ![p] = Append(@, IF ok THEN "stale_miss" ELSE "stale_err")]
            /\ UNCHANGED <<ret, via>>
  /\ UNCHANGED <<primary, stale, lock, attempt, fetched, fetches, expiredEarly>>
  /\ UNCHANGED <<holder, clk, primaryExp, staleExp>>
  /\ UNCHANGED pipelineVars
  /\ UNCHANGED auxVars
  /\ UNCHANGED cascadeVars

\* return fetch_fn().await: the bypass of step 1 and 2, or step 5
DirectFetch(p, v) ==
  /\ cpc[p] \in {"direct_bypass", "direct_last"}
  /\ fetches' = fetches + 1
  /\ cpc' = [cpc EXCEPT ![p] = "done"]
  /\ ret' = [ret EXCEPT ![p] = v]
  /\ via' = [via EXCEPT ![p] = cpc[p]]
  /\ path' = [path EXCEPT ![p] = Append(@, "fetch")]
  /\ UNCHANGED <<primary, stale, lock, attempt, fetched, degraded, expiredEarly>>
  /\ UNCHANGED <<holder, clk, primaryExp, staleExp>>
  /\ UNCHANGED pipelineVars
  /\ UNCHANGED auxVars
  /\ UNCHANGED cascadeVars

\* redis drops lock_key when its EX of LOCK_TTL_SECONDS runs out
LockExpire ==
  /\ lock
  /\ lock' = FALSE
  /\ holder' = 0
  /\ expiredEarly' = (expiredEarly \/ \E p \in Callers : Populating(p))
  /\ UNCHANGED <<cpc, primary, stale, attempt, fetched, ret, via, fetches, degraded>>
  /\ UNCHANGED <<path, clk, primaryExp, staleExp>>
  /\ UNCHANGED pipelineVars
  /\ UNCHANGED auxVars
  /\ UNCHANGED cascadeVars

\* seconds by which the redis clock advances in one step
TickSeconds == 60

\* last instant of the redis clock
MaxClock == 420

\* time passes in redis: a key whose EX has run out is gone
CacheTick ==
  /\ clk < MaxClock
  /\ clk' = clk + TickSeconds
  /\ primary' = IF primary # NULL /\ primaryExp <= clk' THEN NULL ELSE primary
  /\ stale' = IF stale # NULL /\ staleExp <= clk' THEN NULL ELSE stale
  /\ UNCHANGED <<cpc, lock, attempt, fetched, ret, via, fetches, degraded,
                 expiredEarly, path, holder, primaryExp, staleExp>>
  /\ UNCHANGED pipelineVars
  /\ UNCHANGED auxVars
  /\ UNCHANGED cascadeVars

(* -------------------- RedisQueue, several consumers -------------------- *)

\* jobs offered to enqueue_ml_job
NumJobs == 3

\* MlProcessor instances popping the one list
NumConsumers == 2

JobIds == 1..NumJobs

Consumers == 1..NumConsumers

\* MlJob { lettering_id, image_url } of lettering i
QueueJob(i) == [lettering_id |-> i, image_url |-> StorageKey(i, "original")]

\* enqueue_ml_job(job): the connection (5 s timeout), to_string, LPUSH; an
\* error of any of them leaves the list as it was
EnqueueMlJob(i, ok) ==
  /\ outcome[i] = "none"
  /\ \A k \in 1..Len(pushed) : pushed[k].lettering_id # i
  /\ IF ok
       THEN /\ queue' = lpush(queue, MlJobToJson(QueueJob(i)))
            /\ pushed' = Append(pushed, QueueJob(i))
            /\ UNCHANGED outcome
       ELSE /\ outcome' = [outcome EXCEPT ![i] = "unqueued"]
            /\ UNCHANGED <<queue, pushed>>
  /\ UNCHANGED <<popped, holding>>
  /\ UNCHANGED <<now, hf_token, rows, storage, wpc, job, published>>
  /\ UNCHANGED callVars
  /\ UNCHANGED cacheVars
  /\ UNCHANGED cascadeVars
  /\ UNCHANGED <<pinVars, galleryVars, scriptVars>>

\* start() of consumer w: dequeue_ml_job returned Ok(Some(job)); Ok(None)
\* after the 5 s of BRPOP and Err change nothing
ConsumerDequeue(w) ==
  /\ holding[w] = NoJob
  /\ queue # <<>>
  /\ holding' = [holding EXCEPT ![w] = dequeue_ml_job(queue)]
  /\ popped' = Append(popped, [w |-> w, job |-> dequeue_ml_job(queue)])
  /\ queue' = brpop_rest(queue)
  /\ UNCHANGED <<pushed, outcome>>
  /\ UNCHANGED <<now, hf_token, rows, storage, wpc, job, published>>
  /\ UNCHANGED callVars
  /\ UNCHANGED cacheVars
  /\ UNCHANGED cascadeVars
  /\ UNCHANGED <<pinVars, galleryVars, scriptVars>>

\* start() of consumer w: process_job returned; an Err is logged
ConsumerFinish(w, ok) ==
  /\ holding[w] # NoJob
  /\ outcome' = [outcome EXCEPT ![holding[w].lettering_id] = IF ok THEN "Ok" ELSE "Err"]
  /\ queue' = IF ok THEN queue ELSE DropFailedJob(queue, holding[w])
  /\ holding' = [holding EXCEPT ![w] = NoJob]
  /\ UNCHANGED <<pushed, popped>>
  /\ UNCHANGED <<now, hf_token, rows, storage, wpc, job, published>>
  /\ UNCHANGED callVars
  /\ UNCHANGED cacheVars
  /\ UNCHANGED cascadeVars
  /\ UNCHANGED <<pinVars, galleryVars, scriptVars>>

(* ------------------------------ PinCode::new --------------------------- *)

\* longest value tried, in chars
MaxPinLen == 7

\* chars of the values tried: ASCII digits, an ASCII letter, and ARABIC-INDIC
\* DIGIT FIVE (U+0665), a digit outside ASCII
PinChars == {"0", "5", "6", "x", "U+0665"}

\* bytes of a char in UTF-8
len_utf8(c) == IF c = "U+0665" THEN 2 ELSE 1

\* String::len(): the length in bytes
RECURSIVE StrLen(_)
StrLen(s) == IF s = <<>> THEN 0 ELSE len_utf8(Head(s)) + StrLen(Tail(s))

\* char::is_ascii_digit
is_ascii_digit(c) == c \in {"0", "5", "6"}

\* value.starts_with("56")
StartsWith56(s) == Len(s) >= 2 /\ s[1] = "5" /\ s[2] = "6"

\* a check that takes every Unicode digit (char::is_numeric)
PinCodeNewNumeric(value) ==
  IF /\ StrLen(value) = 6
     /\ StartsWith56(value)
     /\ \A k \in 1..Len(value) : value[k] \in {"0", "5", "6", "U+0665"}
    THEN "Ok" ELSE "Err"

\* value.len() == 6 && value.starts_with("56")
\*   && value.chars().all(|c| c.is_ascii_digit())
PinCodeNew(value) ==
  IF /\ StrLen(value) = 6
     /\ StartsWith56(value)
     /\ \A k \in 1..Len(value) : is_ascii_digit(value[k])
    THEN "Ok" ELSE "Err"

PinInputs == UNION {[1..n -> PinChars] : n \in 0..MaxPinLen}

\* PinCode::new(value)
PinCodeNewCall ==
  /\ pinResult = "none"
  /\ pinResult' = PinCodeNew(pinInput)
  /\ UNCHANGED pinInput
  /\ UNCHANGED pipelineVars
  /\ UNCHANGED cacheVars
  /\ UNCHANGED cascadeVars
  /\ UNCHANGED <<queueVars, galleryVars, scriptVars>>

(* ------------------------ MlProcessor::detect_script ------------------- *)

\* longest text passed to detect_script
MaxScriptLen == 3

\* code points the texts are made of: A, z, [, 1, {, DEVANAGARI KA, TAMIL KA,
\* ARABIC BEH, ARABIC LETTER ALEF WASLA ISOLATED FORM (U+FB50)
ScriptChars == {65, 122, 91, 49, 123, 2325, 2965, 1576, 64336}

\* the match of detect_script on `ch as u32`, its arms in order
\* (0x0900..=0x097F, 0x0980..=0x09FF, .., 0x0041..=0x007A)
ScriptOf(ch) ==
  IF ch \in 2304..2431 THEN "Devanagari"
  ELSE IF ch \in 2432..2559 THEN "Bengali"
  ELSE IF ch \in 2560..2687 THEN "Gurmukhi"
  ELSE IF ch \in 2688..2815 THEN "Gujarati"
  ELSE IF ch \in 2816..2943 THEN "Odia"
  ELSE IF ch \in 2944..3071 THEN "Tamil"
  ELSE IF ch \in 3072..3199 THEN "Telugu"
  ELSE IF ch \in 3200..3327 THEN "Kannada"
  ELSE IF ch \in 3328..3455 THEN "Malayalam"
  ELSE IF \/ ch \in 1536..1791
          \/ ch \in 64336..65023
          \/ ch \in 65136..65279 THEN "Arabic/Urdu"
  ELSE IF ch \in 65..122 THEN "Latin"
  ELSE "None"

\* *counts.entry(s).or_insert(0) += 1
CountsAdd(counts, s) ==
  IF s \in DOMAIN counts
    THEN [counts EXCEPT ![s] = @ + 1]
    ELSE [t \in DOMAIN counts \cup {s} |-> IF t = s THEN 1 ELSE counts[t]]

RECURSIVE ScriptCounts(_)
\* the HashMap `counts` after the loop over text.chars()
ScriptCounts(text) ==
  IF text = <<>>
    THEN [t \in {} |-> 0]
    ELSE LET init == ScriptCounts(SubSeq(text, 1, Len(text) - 1))
             s    == ScriptOf(text[Len(text)])
         IN  IF s = "None" THEN init ELSE CountsAdd(init, s)

\* a detect_script that answers with the block of the first classified char
DetectScriptFirstFound(text) ==
  LET ks == {k \in DOMAIN text : ScriptOf(text[k]) # "None"}
  IN  IF ks = {}
        THEN {"None"}
        ELSE {ScriptOf(text[CHOOSE k \in ks : \A j \in ks : k <= j])}

\* what counts.into_iter().max_by_key(|(_, c)| *c) can return: the HashMap
\* iterates in an unspecified order, so any entry of greatest count; None for
\* an empty map
detect_script(text) ==
  LET counts == ScriptCounts(text)
  IN  IF DOMAIN counts = {}
        THEN {"None"}
        ELSE {s \in DOMAIN counts : \A t \in DOMAIN counts : counts[t] <= counts[s]}

\* the texts detect_script is tried on
ScriptInputs == UNION {[1..n -> ScriptChars] : n \in 0..MaxScriptLen}

\* Self::detect_script(&detected_text_str)
DetectScriptCall ==
  /\ scriptResult = "pending"
  /\ \E s \in detect_script(scriptInput) : scriptResult' = s
  /\ UNCHANGED scriptInput
  /\ UNCHANGED pipelineVars
  /\ UNCHANGED cacheVars
  /\ UNCHANGED cascadeVars
  /\ UNCHANGED <<queueVars, pinVars, galleryVars>>

(* ------------ upload_lettering without ML, get_letterings -------------- *)

\* gallery requests served in one run
MaxRequests == 3

\* the gallery key is missing / no response yet
NoListing == [present |-> FALSE, ids |-> {}]

\* the SELECT of get_letterings for a page that covers the table:
\* WHERE l.status = 'APPROVED'
GalleryQuery == {i \in Ids : rows[i].status = "APPROVED"}

\* upload_lettering, line 250: lettering_repo.create(&lettering)
UploadCreate(u, dbOk) ==
  /\ upc[u] = "start"
  /\ IF dbOk
       THEN /\ rows' = [rows EXCEPT ![LetteringId(u)] = NewRow(u)]
            /\ upc' = [upc EXCEPT ![u] = "created"]
       ELSE /\ upc' = [upc EXCEPT ![u] = "failed"]
            /\ UNCHANGED rows
  /\ UNCHANGED <<gcached, gresp, greqs>>
  /\ UNCHANGED <<now, hf_token, storage, queue, wpc, job, published>>
  /\ UNCHANGED callVars
  /\ UNCHANGED cacheVars
  /\ UNCHANGED cascadeVars
  /\ UNCHANGED <<queueVars, pinVars, scriptVars>>

\* upload_lettering with enable_ml_processing = false:
\* approve_without_ml(&state, id, ""), then the "approved" response; no
\* cache key is touched
UploadApprove(u, dbOk) ==
  /\ upc[u] = "created"
  /\ IF dbOk
       THEN /\ rows' = [rows EXCEPT ![LetteringId(u)].detected_text = "",
                                    ![LetteringId(u)].status = "APPROVED"]
            /\ upc' = [upc EXCEPT ![u] = "done"]
       ELSE /\ upc' = [upc EXCEPT ![u] = "failed"]
            /\ UNCHANGED rows
  /\ UNCHANGED <<gcached, gresp, greqs>>
  /\ UNCHANGED <<now, hf_token, storage, queue, wpc, job, published>>
  /\ UNCHANGED callVars
  /\ UNCHANGED cacheVars
  /\ UNCHANGED cascadeVars
  /\ UNCHANGED <<queueVars, pinVars, scriptVars>>

\* get_letterings: cache.get_or_fetch(&cache_key, GALLERY_CACHE_TTL, query)
\* by one request at a time; o tells how redis behaves: a hit returns the
\* cached page, a miss runs the query and writes the key, a failed write is
\* only logged, a failed get bypasses the cache
GetLetterings(o) ==
  /\ greqs < MaxRequests
  /\ greqs' = greqs + 1
  /\ IF o = "get_failed"
       THEN /\ gresp' = [present |-> TRUE, ids |-> GalleryQuery]
            /\ UNCHANGED gcached
       ELSE IF gcached.present
       THEN /\ gresp' = gcached
            /\ UNCHANGED gcached
       ELSE /\ gresp' = [present |-> TRUE, ids |-> GalleryQuery]
            /\ gcached' = IF o = "ok" THEN [present |-> TRUE, ids |-> GalleryQuery]
                                      ELSE gcached
  /\ UNCHANGED upc
  /\ UNCHANGED pipelineVars
  /\ UNCHANGED cacheVars
  /\ UNCHANGED cascadeVars
  /\ UNCHANGED <<queueVars, pinVars, scriptVars>>

\* redis drops the gallery key when its EX of GALLERY_CACHE_TTL runs out
GalleryExpire ==
  /\ gcached.present
  /\ gcached' = NoListing
  /\ UNCHANGED <<upc, gresp, greqs>>
  /\ UNCHANGED pipelineVars
  /\ UNCHANGED cacheVars
  /\ UNCHANGED cascadeVars
  /\ UNCHANGED <<queueVars, pinVars, scriptVars>>

(* ---------------------------- specification ---------------------------- *)

\* the pipeline before any upload
InitPipeline ==
  /\ now = 0
  /\ hf_token \in BOOLEAN
  /\ pc = [c \in Calls |-> "start"]
  /\ image_data \in [Calls -> ImageBytes]
  /\ image_url = [c \in Calls |-> NoUrl]
  /\ urls = [c \in Calls |-> <<>>]
  /\ result = [c \in Calls |-> "none"]
  /\ enq = [c \in Calls |-> "none"]
  /\ rows = [i \in Ids |-> NoRow]
  /\ storage = {}
  /\ queue = <<>>
  /\ wpc = "poll"
  /\ job = NoJob
  /\ published = [i \in Ids |-> [ml |-> 0, sweep |-> 0]]

\* the key is missing from the cache; a stale copy of an earlier population
\* may still be there
InitCache ==
  /\ cpc = [p \in Callers |-> "get"]
  /\ primary = NULL
  /\ stale \in {NULL, "v0"}
  /\ lock = FALSE
  /\ attempt = [p \in Callers |-> 0]
  /\ fetched = [p \in Callers |-> NULL]
  /\ ret = [p \in Callers |-> NULL]
  /\ via = [p \in Callers |-> "none"]
  /\ fetches = 0
  /\ degraded = FALSE
  /\ expiredEarly = FALSE
  /\ path = [p \in Callers |-> <<>>]
  /\ holder = 0
  /\ clk = 0
  /\ primaryExp = 0
  /\ staleExp = IF stale = NULL THEN 0 ELSE STALE_EXTENSION_SECONDS

\* no job has been processed yet
InitCascade ==
  /\ hfLog = <<>>
  /\ onnxLog = <<>>
  /\ detected = NULL
  /\ jobDone = [id |-> 0, res |-> "none"]
  /\ mlUpdate = NoUpdate
  /\ lastPoll = "none"

\* no queue consumer has run; the job log is empty
InitQueue ==
  /\ pushed = <<>>
  /\ popped = <<>>
  /\ holding = [w \in Consumers |-> NoJob]
  /\ outcome = [i \in JobIds |-> "none"]

\* PinCode::new has not been called
InitPin ==
  /\ pinInput = <<>>
  /\ pinResult = "none"

\* no upload request has arrived and the gallery key is missing
InitGallery ==
  /\ upc = [u \in Calls |-> "start"]
  /\ gcached = NoListing
  /\ gresp = NoListing
  /\ greqs = 0

\* detect_script has not been called
InitScript ==
  /\ scriptInput = <<>>
  /\ scriptResult = "pending"

InitAux == InitQueue /\ InitPin /\ InitGallery /\ InitScript

Init == InitPipeline /\ InitCache /\ stale = NULL /\ InitCascade /\ InitAux

\* every call has returned Ok: its row is PENDING and its job is queued
InitEnrich ==
  /\ now = 0
  /\ hf_token \in BOOLEAN
  /\ pc = [c \in Calls |-> "done"]
  /\ image_data = [c \in Calls |-> c]
  /\ image_url = [c \in Calls |-> StorageKey(LetteringId(c), "original")]
  /\ urls = [c \in Calls |-> ThumbnailUrls(c, Len(ThumbnailSizes))]
  /\ result = [c \in Calls |-> "Ok"]
  /\ enq = [c \in Calls |-> "ok"]
  /\ rows = [i \in Ids |-> NewRow(i)]
  /\ storage = {StorageKey(LetteringId(c), AssetNames[k]) :
                  c \in Calls, k \in 1..Len(AssetNames)}
  /\ queue = [k \in 1..NumCalls |->
                MlJobToJson(
                  [lettering_id |-> LetteringId(NumCalls + 1 - k),
                   image_url |-> StorageKey(LetteringId(NumCalls + 1 - k), "original")])]
  /\ wpc = "poll"
  /\ job = NoJob
  /\ published = [i \in Ids |-> [ml |-> 0, sweep |-> 0]]
  /\ InitCache
  /\ stale = NULL
  /\ InitCascade
  /\ InitAux

\* a row as SqlxLetteringRepository::update can leave it: any status with any
\* detected text and enrichment metadata
StoredRow(i, st, txt, m) ==
  [ status           |-> st,
    image_hash       |-> Sha256Hex(i),
    image_url        |-> StorageKey(i, "original"),
    thumbnail_small  |-> StorageKey(i, "small"),
    thumbnail_medium |-> StorageKey(i, "medium"),
    thumbnail_large  |-> StorageKey(i, "large"),
    detected_text    |-> txt,
    ml               |-> m,
    created_at       |-> 0 ]

\* how long before the start of the run a stored row can have been created
MaxAge == 1

\* the rows that can be stored under id i, created at the start of the run
\* or up to MaxAge before it
StoredRows(i) ==
  { [StoredRow(i, st, txt, m) EXCEPT !.created_at = 0 - a] :
      st \in {"PENDING", "APPROVED", "REJECTED"},
      txt \in {NULL, "", "BAKERY"},
      m \in {NULL, "ENRICHED"},
      a \in 0..MaxAge }

\* a table of stored rows, nothing queued, no call in progress
InitPromote ==
  /\ now = 0
  /\ hf_token = FALSE
  /\ pc = [c \in Calls |-> "done"]
  /\ image_data = [c \in Calls |-> c]
  /\ image_url = [c \in Calls |-> StorageKey(LetteringId(c), "original")]
  /\ urls = [c \in Calls |-> ThumbnailUrls(c, Len(ThumbnailSizes))]
  /\ result = [c \in Calls |-> "Ok"]
  /\ enq = [c \in Calls |-> "failed"]
  /\ rows \in {t \in [Ids -> UNION {StoredRows(i) : i \in Ids}] :
                 \A i \in Ids : t[i] \in StoredRows(i)}
  /\ storage = {StorageKey(LetteringId(c), AssetNames[k]) :
                  c \in Calls, k \in 1..Len(AssetNames)}
  /\ queue = <<>>
  /\ wpc = "poll"
  /\ job = NoJob
  /\ published = [i \in Ids |-> [ml |-> 0, sweep |-> 0]]
  /\ InitCache
  /\ stale = NULL
  /\ InitCascade
  /\ InitAux

InitCacheOnly ==
  /\ InitCache
  /\ InitCascade
  /\ InitAux
  /\ InitPipeline
  /\ hf_token = FALSE
  /\ image_data = [c \in Calls |-> 0]

Ingest ==
  \/ \E c \in Calls, ok \in BOOLEAN : ExecuteStart(c, ok)
  \/ \E c \in Calls, nOk \in 0..Len(AssetNames) : UploadAssets(c, nOk)
  \/ \E c \in Calls, ok \in BOOLEAN : Create(c, ok)
  \/ \E c \in Calls, ok \in BOOLEAN : Enqueue(c, ok)

Enrich ==
  \/ DequeueMlJob
  \/ \E o \in JobOutcomes : ProcessJob(o.fetchOk, o.hf, o.onnx, o.dbOk)

PromoteStale == \E S \in SUBSET Ids : Sweep(S)

Moderate == \E i \in Ids : RejectLettering(i)

Next == Ingest \/ Enrich \/ PromoteStale \/ Moderate \/ Tick

\* the whole pipeline: uploads, both workers, moderation, the clock
Spec == Init /\ [][Next]_vars

GetOrFetch ==
  \/ \E p \in Callers, ok \in BOOLEAN : CacheGet(p, ok)
  \/ \E p \in Callers, o \in {"ok", "conn_err", "cmd_err"} : TryLock(p, o)
  \/ \E p \in Callers, v \in FetchResults : WinnerFetch(p, v)
  \/ \E p \in Callers, ok \in BOOLEAN : SetPrimary(p, ok)
  \/ \E p \in Callers, ok \in BOOLEAN : SetStale(p, ok)
  \/ \E p \in Callers, ok \in BOOLEAN : ReleaseLock(p, ok)
  \/ \E p \in Callers, ok \in BOOLEAN : Poll(p, ok)
  \/ \E p \in Callers, ok \in BOOLEAN : ReadStale(p, ok)
  \/ \E p \in Callers, v \in FetchResults : DirectFetch(p, v)

NextCache == GetOrFetch \/ LockExpire

\* concurrent get_or_fetch calls on one key
SpecCache == InitCacheOnly /\ [][NextCache]_vars

NextCacheTtl == NextCache \/ CacheTick

\* the same calls while time passes in redis and keys expire
SpecCacheTtl == InitCacheOnly /\ [][NextCacheTtl]_vars

EnrichStepwise ==
  \/ DequeueMlJob
  \/ DequeueNone
  \/ DequeueError
  \/ \E o \in FetchOutcomes : FetchImage(o)
  \/ \E r \in HfResponses : HfRequest(r)
  \/ \E o \in OnnxOutcomes : OnnxDetect(o)
  \/ \E dbOk \in BOOLEAN, decoded \in BOOLEAN, c \in StyleOutcomes :
       Persist(dbOk, decoded, c)

NextEnrich == EnrichStepwise \/ PromoteStale \/ Tick

\* MlProcessor working through the queued jobs one step at a time, next to
\* the promotion sweep
SpecEnrich == InitEnrich /\ [][NextEnrich]_vars

NextPromote == PromoteStale \/ Tick

\* the promotion sweep alone over a table of stored rows
SpecPromote == InitPromote /\ [][NextPromote]_vars

\* concurrent execute() calls alone
SpecIngest == Init /\ [][Ingest]_vars

\* nothing uploaded, nothing queued, nothing cached
InitIdle == InitCacheOnly /\ stale = NULL

NextQueue ==
  \/ \E i \in JobIds, ok \in BOOLEAN : EnqueueMlJob(i, ok)
  \/ \E w \in Consumers : ConsumerDequeue(w)
  \/ \E w \in Consumers, ok \in BOOLEAN : ConsumerFinish(w, ok)

\* the job list with its producers and several consumers
SpecQueue == InitIdle /\ [][NextQueue]_vars

\* PinCode::new applied to every value of up to MaxPinLen chars
InitPinCode ==
  /\ InitPipeline /\ hf_token = FALSE /\ image_data = [c \in Calls |-> 0]
  /\ InitCache /\ stale = NULL
  /\ InitCascade
  /\ InitQueue
  /\ InitGallery
  /\ InitScript
  /\ pinInput \in PinInputs
  /\ pinResult = "none"

SpecPin == InitPinCode /\ [][PinCodeNewCall]_vars

\* detect_script is about to be called with one of the inputs
InitDetectScript ==
  /\ InitPipeline /\ hf_token = FALSE /\ image_data = [c \in Calls |-> 0]
  /\ InitCache /\ stale = NULL
  /\ InitCascade
  /\ InitQueue
  /\ InitGallery
  /\ InitPin
  /\ scriptInput \in ScriptInputs
  /\ scriptResult = "pending"

SpecScript == InitDetectScript /\ [][DetectScriptCall]_vars

NextGallery ==
  \/ \E u \in Calls, ok \in BOOLEAN : UploadCreate(u, ok)
  \/ \E u \in Calls, ok \in BOOLEAN : UploadApprove(u, ok)
  \/ \E o \in {"ok", "get_failed", "set_failed"} : GetLetterings(o)
  \/ GalleryExpire

\* uploads with ML processing disabled next to gallery requests
SpecGallery == InitIdle /\ [][NextGallery]_vars

NextUnmoderated == Ingest \/ Enrich \/ PromoteStale \/ Tick

\* no moderation; PendingAutoApproveWorker::start loops forever (sweep, then
\* sleep interval_seconds) and the clock advances
SpecLive ==
  /\ Init
  /\ [][NextUnmoderated]_vars
  /\ WF_vars(PromoteStale)
  /\ WF_vars(Tick)

\* MlProcessor::start never leaves its loop: a BRPOP on a reachable, non-empty
\* list returns a job, and every step of process_job returns (the HTTP client
\* has a 60 s timeout, the retry loop of huggingface_ocr is bounded)
SpecEnrichLive ==
  /\ InitEnrich
  /\ [][NextEnrich]_vars
  /\ WF_vars(DequeueMlJob)
  /\ WF_vars(\E o \in FetchOutcomes : FetchImage(o))
  /\ WF_vars(\E r \in HfResponses : HfRequest(r))
  /\ WF_vars(\E o \in OnnxOutcomes : OnnxDetect(o))
  /\ WF_vars(\E dbOk \in BOOLEAN, decoded \in BOOLEAN, c \in StyleOutcomes :
               Persist(dbOk, decoded, c))

(* ------------------------------------------------------------------------ *)
(* Properties                                                               *)
(* ------------------------------------------------------------------------ *)

\* a step of process_job that ends the job (MlProcessor returns to polling)
ProcessJobStep == wpc = "process" /\ wpc' = "poll"

\* a step of the promotion sweep that returned at least one id
SweepStep == \E i \in Ids : published'[i].sweep # published[i].sweep

\* rows of a table rs carrying content hash h
RowsWithHash(rs, h) ==
  {i \in Ids : rs[i].status # "NONE" /\ rs[i].image_hash = h}

\* C1: a process_job step changes nothing of a row that moderation has moved
\* to REJECTED or REPORTED: status and enrichment fields stay as they were.
LateEnrichmentKeepsModeratedRow ==
  [][ ProcessJobStep =>
        \A i \in Ids :
          rows[i].status \in {"REJECTED", "REPORTED"} => rows'[i] = rows[i] ]_vars

\* C2: once one worker has approved a row, no later step of either worker
\* (process_job or the promotion sweep) modifies that row again.
WorkersIdempotentAgainstEachOther ==
  [][ (ProcessJobStep \/ SweepStep) =>
        \A i \in Ids :
          rows[i].status = "APPROVED" => rows'[i] = rows[i] ]_vars

\* C4: no two persisted rows carry the same content hash.
ContentHashUnique ==
  \A i, j \in Ids :
    (Exists(i) /\ Exists(j) /\ rows[i].image_hash = rows[j].image_hash) => i = j

\* C4 witness: two calls with the same bytes both passed the hash lookup
\* before either inserted; one row was inserted and the other insert failed.
ConcurrentDuplicateInsertRefused ==
  \E c, d \in Calls :
    /\ c # d
    /\ image_data[c] = image_data[d]
    /\ Exists(LetteringId(c))
    /\ Len(urls[d]) = Len(ThumbnailSizes)
    /\ result[d] = "PersistFailure"

\* a call d leaves "start" while a submit of the same bytes has returned Ok
SecondSubmitStep(d) ==
  /\ pc[d] = "start"
  /\ pc'[d] # "start"
  /\ \E c \in Calls : /\ c # d
                      /\ result[c] = "Ok"
                      /\ image_data[c] = image_data[d]

\* C5 as stated: the second submit of bytes already persisted returns
\* DuplicateContent, and exactly one row carries that content hash.
SecondSubmitIsDuplicateContent ==
  [][ \A d \in Calls :
        SecondSubmitStep(d) =>
          /\ result'[d] = "DuplicateContent"
          /\ Cardinality(RowsWithHash(rows', Sha256Hex(image_data[d]))) = 1 ]_vars

\* C5 amended: the second submit of bytes already persisted fails at once,
\* with DuplicateContent or, when the lookup query itself fails, with that
\* database error; it inserts nothing and exactly one row carries the hash.
SecondSubmitRejected ==
  [][ \A d \in Calls :
        SecondSubmitStep(d) =>
          /\ pc'[d] = "done"
          /\ result'[d] \in {"DuplicateContent", "LookupFailure"}
          /\ rows' = rows
          /\ storage' = storage
          /\ Cardinality(RowsWithHash(rows', Sha256Hex(image_data[d]))) = 1 ]_vars

\* C5 witness: a submit returned Ok and a later one with the same bytes
\* returned DuplicateContent.
DuplicateSubmitSeen ==
  \E c, d \in Calls :
    /\ c # d
    /\ image_data[c] = image_data[d]
    /\ result[c] = "Ok"
    /\ result[d] = "DuplicateContent"
    /\ Cardinality(RowsWithHash(rows, Sha256Hex(image_data[d]))) = 1

\* C7: every persisted row has its original url and its three thumbnail
\* urls set to objects present in the asset store, and a submit that failed
\* on an upload has inserted no row.
AssetsCompleteOrNoRow ==
  /\ \A i \in Ids :
       Exists(i) =>
         /\ rows[i].image_url = StorageKey(i, "original")
         /\ rows[i].thumbnail_small = StorageKey(i, "small")
         /\ rows[i].thumbnail_medium = StorageKey(i, "medium")
         /\ rows[i].thumbnail_large = StorageKey(i, "large")
         /\ {StorageKey(i, AssetNames[k]) : k \in 1..Len(AssetNames)} \subseteq storage
  /\ \A c \in Calls :
       result[c] = "StorageFailure" => ~Exists(LetteringId(c))

\* C7 witness: one submit persisted its row, another failed on a thumbnail
\* upload after the original was stored.
PartialUploadLeftNoRow ==
  \E c, d \in Calls :
    /\ Exists(LetteringId(c))
    /\ result[d] = "StorageFailure"
    /\ StorageKey(LetteringId(d), "original") \in storage
    /\ StorageKey(LetteringId(d), "large") \notin storage

\* C8: the promotion sweep selects, changes and notifies each row at most
\* once: a row it has promoted is no longer PENDING and is never selected by
\* a later sweep.
PromotedAtMostOnce ==
  \A i \in Ids :
    /\ published[i].sweep <= 1
    /\ published[i].sweep = 1 => (Exists(i) /\ rows[i].status # "PENDING")

\* C8 witness: two rows were promoted, each exactly once, so a sweep ran over
\* a table that already held a promoted row.
TwoRowsPromotedOnceEach ==
  \E i, j \in Ids :
    /\ i # j
    /\ published[i].sweep = 1
    /\ published[j].sweep = 1

PendingEventuallyApproved ==
  /\ \A i \in Ids :
       (/\ Exists(i)
        /\ rows[i].status = "PENDING"
        /\ rows[i].created_at + StaleAfter < MaxTime)
         ~> (rows[i].status = "APPROVED")
  /\ [](\A c \in Calls :
          (enq[c] = "failed" /\ rows[LetteringId(c)].status = "APPROVED")
            => rows[LetteringId(c)].detected_text = PromotionPlaceholder)

\* C6 witness: a row that was never enqueued has been approved with the
\* promotion placeholder.
UnqueuedRowPromoted ==
  \E c \in Calls :
    /\ enq[c] = "failed"
    /\ rows[LetteringId(c)].status = "APPROVED"
    /\ rows[LetteringId(c)].detected_text = PromotionPlaceholder

\* every caller has returned
AllReturned == \A p \in Callers : cpc[p] = "done"

\* C3: when all callers have returned, fetch_fn ran exactly once and every
\* caller returned the same value. Stated for the most favourable runs: no
\* redis failure, no lock expiry, no failure of fetch_fn, nobody left through
\* the stale or direct path.
SingleFlightExactlyOnce ==
  (/\ AllReturned
   /\ ~degraded
   /\ ~expiredEarly
   /\ \A p \in Callers : ret[p] # "Err"
   /\ \A p \in Callers : via[p] \in {"hit", "winner", "poll"})
    => /\ fetches = 1
       /\ \A p, q \in Callers : ret[p] = ret[q]

\* C10 as stated: while no redis operation has failed, at most one caller is
\* between winning the lock and releasing it.
OnePopulatorWhileHealthy ==
  ~degraded => Cardinality({p \in Callers : Populating(p)}) <= 1

\* C10 amended: while no redis operation has failed and no lock has expired
\* under a caller that was still populating, at most one caller is between
\* winning the lock and releasing it.
OnePopulatorUnlessLockExpired ==
  (~degraded /\ ~expiredEarly) =>
     Cardinality({p \in Callers : Populating(p)}) <= 1

\* C10 witness: one caller is populating as the lock winner while another
\* caller, refused by SET NX, waits in the poll loop.
WinnerPopulatesFollowerWaits ==
  \E p, q \in Callers :
    /\ cpc[p] = "winner_fetch"
    /\ cpc[q] = "poll"
    /\ lock
    /\ ~degraded
    /\ ~expiredEarly

\* the last process_job returned Ok and the worker is back in its loop; hfLog,
\* onnxLog and detected are still those of that job
JobCompleted == wpc = "poll" /\ jobDone.res = "Ok"

\* a response that ends the primary tier for the job: 401, 403 or 429
TerminalResponse(r) == r.status \in {401, 403, 429}

\* the secondary tier answered with a text the cascade takes
OnnxMeaningful(o) ==
  /\ o.ok
  /\ o.detected_text # ""
  /\ o.detected_text # "No text detected"
  /\ o.confidence > 0

EmptyPrimaryAnswerIsFinal ==
  (huggingface_ocr(hfLog).ok /\ huggingface_ocr(hfLog).text = "") =>
     /\ onnxLog = <<>>
     /\ detected # TertiaryPlaceholder

\* C13 as stated: when the primary tier got a 401, 403 or 429, it has sent
\* exactly one request for the job, and the secondary tier is invoked exactly
\* once.
TerminalResponseSingleRequest ==
  (\E k \in 1..Len(hfLog) : TerminalResponse(hfLog[k])) =>
     /\ Len(hfLog) = 1
     /\ Len(onnxLog) = IF wpc = "onnx" THEN 0 ELSE 1

\* C13 amended: a 401, 403 or 429 is the last response of the primary tier
\* for the job: no request follows it, only 503 answers can precede it (so it
\* is the only request when it answers the first one), and the secondary tier
\* is invoked exactly once.
TerminalResponseNotRetried ==
  \A k \in 1..Len(hfLog) :
    TerminalResponse(hfLog[k]) =>
      /\ k = Len(hfLog)
      /\ \A j \in 1..(k - 1) : hfLog[j].status = 503
      /\ Len(onnxLog) = IF wpc = "onnx" THEN 0 ELSE 1

\* C13 witness: a job completed after one request answered 401 and one call
\* of the secondary tier.
JobCompletedAfterAuthFailure ==
  /\ JobCompleted
  /\ Len(hfLog) = 1
  /\ hfLog[1].status = 401
  /\ Len(onnxLog) = 1

\* C14: when the primary tier gave no usable text and the secondary tier
\* failed or gave no meaningful text, the cascade returns the tertiary
\* placeholder, and the completed job leaves the row APPROVED with it.
BothTiersExhaustedGivesPlaceholder ==
  (/\ ~HfUsable(hfLog)
   /\ onnxLog # <<>>
   /\ ~OnnxMeaningful(onnxLog[1])) =>
     /\ detected = TertiaryPlaceholder
     /\ JobCompleted =>
          /\ rows[jobDone.id].status = "APPROVED"
          /\ rows[jobDone.id].detected_text = TertiaryPlaceholder

\* C14 witness: a job completed after three 503 answers of the primary tier
\* and an error of the secondary tier.
JobCompletedOnPlaceholder ==
  /\ JobCompleted
  /\ Len(hfLog) = MaxHfAttempts
  /\ onnxLog # <<>>
  /\ ~onnxLog[1].ok
  /\ rows[jobDone.id].detected_text = TertiaryPlaceholder
  /\ rows[jobDone.id].status = "APPROVED"

\* C15: a process_job whose image fetch fails returns Err before any
\* detection step: no tier is invoked, no row changes (the job's row keeps
\* its status), nothing is published and the job is not put back on the queue.
FetchFailureDropsJob ==
  [][ (wpc = "process" /\ jobDone'.res = "Err" /\ wpc' = "poll") =>
        /\ hfLog' = <<>>
        /\ onnxLog' = <<>>
        /\ detected' = NULL
        /\ rows' = rows
        /\ published' = published
        /\ queue' = queue
        /\ \A k \in 1..Len(queue') :
             MlJobFromJson(queue'[k]).lettering_id # job.lettering_id ]_vars

\* C15 witness: the fetch of a job failed; its row is still PENDING, nothing
\* was published for it and its job is gone.
FetchFailedRowPending ==
  /\ wpc = "poll"
  /\ jobDone.res = "Err"
  /\ hfLog = <<>>
  /\ onnxLog = <<>>
  /\ rows[jobDone.id].status = "PENDING"
  /\ rows[jobDone.id].detected_text = NULL
  /\ published[jobDone.id].ml = 0
  /\ \A k \in 1..Len(queue) : MlJobFromJson(queue[k]).lettering_id # jobDone.id

\* C16: a row the sweep approved from a null detected text carries the text
\* MlProcessor persists when both detection tiers yield nothing.
PromotionWritesTertiaryPlaceholder ==
  \A i \in Ids :
    (/\ rows[i].status = "APPROVED"
     /\ published[i].sweep = 1
     /\ published[i].ml = 0) =>
       rows[i].detected_text = TertiaryPlaceholder

\* C17: a sweep changes of a row only its status and, where it is null, its
\* detected text, which becomes the promotion placeholder; a non-null
\* detected text (the empty string included) and the enrichment metadata stay
\* as they were.
PromotionKeepsEnrichment ==
  [][ SweepStep =>
        \A i \in Ids :
          /\ rows'[i].ml = rows[i].ml
          /\ rows[i].detected_text # NULL =>
               rows'[i].detected_text = rows[i].detected_text
          /\ rows'[i].detected_text # rows[i].detected_text =>
               /\ rows[i].detected_text = NULL
               /\ rows'[i].detected_text = PromotionPlaceholder
          /\ rows'[i] = [rows[i] EXCEPT !.status = rows'[i].status,
                                        !.detected_text = rows'[i].detected_text] ]_vars

\* C17 witness: the sweep has promoted a row that carried a detected text and
\* metadata, and both are still there.
PromotedRowKeptText ==
  \E i \in Ids :
    /\ published[i].sweep = 1
    /\ rows[i].status = "APPROVED"
    /\ rows[i].detected_text = "BAKERY"
    /\ rows[i].ml = "ENRICHED"

\* C18: a call that leaves "start" with bytes whose hash is already stored,
\* or with bytes that do not decode, has returned an error and has written
\* nothing: no object stored, no row inserted, no job enqueued.
ValidationFailureNoSideEffects ==
  [][ \A c \in Calls :
        (/\ pc[c] = "start"
         /\ pc'[c] # "start"
         /\ \/ RowsWithHash(rows, Sha256Hex(image_data[c])) # {}
            \/ image_data[c] = 0) =>
          /\ pc'[c] = "done"
          /\ result'[c] \in {"DuplicateContent", "InvalidImage", "LookupFailure"}
          /\ storage' = storage
          /\ rows' = rows
          /\ queue' = queue
          /\ enq' = enq ]_vars

\* C18 witness: a call was refused as a duplicate or as an undecodable image
\* while another was accepted; the store holds the accepted call's four
\* objects and nothing else, and the refused call has no row and no job.
RefusedSubmitWroteNothing ==
  \E c, d \in Calls :
    /\ c # d
    /\ result[d] \in {"DuplicateContent", "InvalidImage"}
    /\ pc[c] = "done"
    /\ result[c] = "Ok"
    /\ storage = {StorageKey(LetteringId(c), AssetNames[k]) : k \in 1..Len(AssetNames)}
    /\ ~Exists(LetteringId(d))
    /\ enq[d] = "none"

\* C19: a submit that failed on an upload has left none of its objects in
\* the asset store.
FailedSubmitLeavesNoOrphan ==
  \A c \in Calls :
    result[c] = "StorageFailure" =>
      \A k \in 1..Len(AssetNames) :
        StorageKey(LetteringId(c), AssetNames[k]) \notin storage

\* C20: every step that inserts a row inserts it PENDING, with null detected
\* text and metadata and with the hash of the submitted bytes.
RowsCreatedPending ==
  [][ \A c \in Calls :
        (~Exists(LetteringId(c)) /\ rows'[LetteringId(c)].status # "NONE") =>
          /\ rows'[LetteringId(c)].status = "PENDING"
          /\ rows'[LetteringId(c)].detected_text = NULL
          /\ rows'[LetteringId(c)].ml = NULL
          /\ rows'[LetteringId(c)].image_hash = Sha256Hex(image_data[c]) ]_vars

\* C20 witness: create() has just returned for a call: its row is PENDING
\* and unenriched and the job is not yet enqueued.
CreatedRowPendingUnenriched ==
  \E c \in Calls :
    /\ pc[c] = "enqueue"
    /\ rows[LetteringId(c)].status = "PENDING"
    /\ rows[LetteringId(c)].detected_text = NULL
    /\ rows[LetteringId(c)].ml = NULL
    /\ rows[LetteringId(c)].image_hash = Sha256Hex(image_data[c])

\* C21: a lock winner whose fetch_fn failed writes neither key, goes on to
\* the DEL of the lock (which removes the lock unless the DEL itself fails)
\* and returns the error of fetch_fn.
WinnerSourceErrorReturned ==
  [][ \A p \in Callers :
        /\ (cpc[p] = "winner_fetch" /\ fetched'[p] = "Err") =>
             /\ cpc'[p] = "release"
             /\ primary' = primary
             /\ stale' = stale
        /\ (cpc[p] = "release" /\ fetched[p] = "Err" /\ cpc'[p] = "done") =>
             /\ ret'[p] = "Err"
             /\ primary' = primary
             /\ stale' = stale
             /\ (lock' = FALSE \/ degraded')
        /\ fetched[p] = "Err" => cpc[p] \in {"release", "done"} ]_vars

\* C21 witness: a winner has returned the error of fetch_fn; neither key
\* holds a value and the lock is gone.
WinnerFailedLockReleased ==
  \E p \in Callers :
    /\ cpc[p] = "done"
    /\ via[p] = "winner"
    /\ ret[p] = "Err"
    /\ primary = NULL
    /\ stale = NULL
    /\ ~lock
    /\ ~degraded

\* C22: a call that has returned holds a value of the cache or the result of
\* its own fetch_fn call, and holds an error only as the result of its own
\* fetch_fn call.
OnlySourceErrorsReturned ==
  \A p \in Callers :
    cpc[p] = "done" =>
      /\ ret[p] \in FetchResults \cup {"v0"}
      /\ ret[p] = "Err" => via[p] \in {"winner", "direct_bypass", "direct_last"}

\* C22 witness: one call was bypassed after a failed get, another won the
\* lock and saw both its writes fail; both returned a value of fetch_fn.
StoreFailuresStillServed ==
  \E p, q \in Callers :
    /\ cpc[p] = "done" /\ via[p] = "direct_bypass" /\ ret[p] \in {"v1", "v2"}
    /\ cpc[q] = "done" /\ via[q] = "winner" /\ ret[q] \in {"v1", "v2"}
    /\ primary = NULL
    /\ stale = NULL

\* C30: a call whose initial get finds the key returns that value in the
\* same step: fetch_fn is not called, the lock is not touched and no key is
\* written.
HitReturnsWithoutSideEffects ==
  [][ \A p \in Callers :
        ( /\ cpc[p] = "get"
          /\ cpc'[p] \notin {"get", "direct_bypass"}
          /\ primary # NULL ) =>
            /\ cpc'[p] = "done"
            /\ ret'[p] = primary
            /\ via'[p] = "hit"
            /\ fetches' = fetches
            /\ lock' = lock
            /\ primary' = primary
            /\ stale' = stale ]_vars

\* C30 witness: a call was served by its initial get after another call
\* populated the key with the only fetch_fn call.
ServedByInitialGet ==
  \E p \in Callers :
    /\ cpc[p] = "done"
    /\ via[p] = "hit"
    /\ ret[p] = primary
    /\ fetches = 1

\* C29: for one job huggingface_ocr sends at most MaxHfAttempts requests,
\* every request but the last was answered 503, and after MaxHfAttempts
\* answers of 503 it has returned Err and the job is at (or past) the ONNX
\* tier.
PrimaryTierBounded ==
  /\ Len(hfLog) <= MaxHfAttempts
  /\ \A k \in 1..(Len(hfLog) - 1) : hfLog[k].status = 503
  /\ ( /\ Len(hfLog) = MaxHfAttempts
       /\ \A k \in 1..Len(hfLog) : hfLog[k].status = 503 ) =>
         /\ ~huggingface_ocr(hfLog).ok
         /\ wpc # "hf"
         /\ (wpc = "onnx" \/ Len(onnxLog) = 1)

\* C29 witness: three requests were answered 503 and the job waits for the
\* ONNX tier.
ThreeColdStartsThenSecondary ==
  /\ Len(hfLog) = 3
  /\ \A k \in 1..Len(hfLog) : hfLog[k].status = 503
  /\ wpc = "onnx"
  /\ onnxLog = <<>>

\* C23: the jobs returned by dequeue_ml_job so far, in the order they were
\* returned, followed by the jobs still on the list from its tail to its
\* head, are exactly the jobs whose enqueue completed, in the order the
\* enqueues completed: jobs come out first in, first out, each with the id
\* and the asset url it went in with.
QueueFifoExactJobs ==
  pushed =
    [k \in 1..(Len(popped) + Len(queue)) |->
       IF k <= Len(popped)
         THEN popped[k].job
         ELSE MlJobFromJson(queue[Len(queue) + 1 - (k - Len(popped))])]

\* C23 witness: one consumer has been handed two jobs in the order they were
\* enqueued, which is not the order of their ids.
ConsumerGotJobsInEnqueueOrder ==
  /\ Len(popped) >= 2
  /\ popped[1].w = popped[2].w
  /\ popped[1].job = pushed[1]
  /\ popped[2].job = pushed[2]
  /\ pushed[1].lettering_id > pushed[2].lettering_id
  /\ pushed[1].image_url = StorageKey(pushed[1].lettering_id, "original")

\* C24: no job was returned by two dequeue_ml_job calls, and a job that was
\* returned is not on the list, whatever became of its processing.
JobDequeuedAtMostOnce ==
  /\ \A a, b \in 1..Len(popped) :
       a # b => popped[a].job.lettering_id # popped[b].job.lettering_id
  /\ \A a \in 1..Len(popped), k \in 1..Len(queue) :
       MlJobFromJson(queue[k]).lettering_id # popped[a].job.lettering_id

\* C24 witness: two consumers were handed one job each; the processing of
\* one failed, that of the other succeeded, and the list is empty.
TwoConsumersOneJobEach ==
  /\ Len(popped) = 2
  /\ popped[1].w # popped[2].w
  /\ outcome[popped[1].job.lettering_id] = "Err"
  /\ outcome[popped[2].job.lettering_id] = "Ok"
  /\ queue = <<>>

\* C26: PinCode::new returns Ok exactly for the values of six chars, all of
\* them ASCII digits, that begin with 5 and 6, and Err for every other value.
PinCodeAcceptsExactly ==
  pinResult # "none" =>
    /\ pinResult \in {"Ok", "Err"}
    /\ pinResult = "Ok" <=>
         /\ Len(pinInput) = 6
         /\ \A k \in 1..Len(pinInput) : pinInput[k] \in {"0", "5", "6"}
         /\ pinInput[1] = "5"
         /\ pinInput[2] = "6"

\* C26 witness: 560006 was accepted.
PinCodeAccepted ==
  /\ pinInput = <<"5", "6", "0", "0", "0", "6">>
  /\ pinResult = "Ok"

\* C25: a gallery request served after an upload has returned "approved"
\* lists that upload's lettering.
UploadedLetteringListed ==
  [][ greqs' # greqs =>
        \A u \in Calls :
          upc[u] = "done" =>
            /\ rows[LetteringId(u)].status = "APPROVED"
            /\ LetteringId(u) \in gresp'.ids ]_vars

\* C27: a step that changes rows of the table under the sweep changes only
\* rows that were PENDING and created more than StaleAfter ago when the
\* statement ran, changes at most BatchSize of them, and leaves no eligible
\* row unchanged that is older than a row it changed.
SweepChangesOnlyStalePending ==
  [][ LET changed == {i \in Ids : rows'[i] # rows[i]}
          eligible == {i \in Ids : /\ rows[i].status = "PENDING"
                                   /\ rows[i].created_at + StaleAfter < now}
      IN  /\ changed \subseteq eligible
          /\ Cardinality(changed) <= BatchSize
          /\ \A i \in changed, j \in eligible \ changed :
               rows[i].created_at <= rows[j].created_at ]_vars

\* C27 witness: of two eligible rows the sweep has promoted the older one;
\* the younger one is still PENDING and still eligible.
OlderRowPromotedFirst ==
  \E i, j \in Ids :
    /\ published[i].sweep = 1
    /\ rows[i].status = "APPROVED"
    /\ rows[j].status = "PENDING"
    /\ rows[j].created_at + StaleAfter < now
    /\ rows[i].created_at < rows[j].created_at

GetFailureBypassesCache ==
  \A p \in Callers :
    (path[p] # <<>> /\ path[p][1] = "get_err") =>
      /\ path[p] \in {<<"get_err">>, <<"get_err", "fetch">>}
      /\ cpc[p] = IF Len(path[p]) = 1 THEN "direct_bypass" ELSE "done"
      /\ cpc[p] = "done" => (via[p] = "direct_bypass" /\ ret[p] \in FetchResults)
      /\ attempt[p] = 0
      /\ fetched[p] = NULL
      /\ holder # p

\* C31 witness: a call whose initial get failed has returned a value of
\* fetch_fn, the only call of fetch_fn so far; the lock and both keys are as
\* they were.
BypassedAfterGetFailure ==
  \E p \in Callers :
    /\ path[p] = <<"get_err", "fetch">>
    /\ ret[p] \in {"v1", "v2"}
    /\ fetches = 1
    /\ ~lock
    /\ primary = NULL
    /\ stale = NULL

\* the store has answered every command so far and no lock has expired under
\* a populating caller
HealthyPopulation == ~degraded /\ ~expiredEarly

\* C32 as stated: with a healthy store the lock is present as long as a
\* winner whose fetch_fn succeeded has not yet written the primary key.
LockHeldUntilPrimaryWritten ==
  ~degraded => \A p \in Callers : cpc[p] = "set_primary" => lock

\* C32: a winner whose fetch_fn succeeded reaches the DEL of the lock only
\* after the SET of the primary key and then the SET of the stale key; with a
\* healthy store and no lock expiring during a population the lock is held
\* until both keys are written, and a primary copy is accompanied by a stale
\* copy that expires at least STALE_EXTENSION_SECONDS later.
WinnerWritesBeforeRelease ==
  /\ \A p \in Callers :
       (cpc[p] \in {"release", "done"} /\ fetched[p] \notin {NULL, "Err"}) =>
         /\ Len(path[p]) >= 5
         /\ path[p][3] = "fetch"
         /\ path[p][4] \in {"set_primary", "set_primary_err"}
         /\ path[p][5] \in {"set_stale", "set_stale_err"}
         /\ \A k \in 1..5 : path[p][k] \notin {"del", "del_err"}
  /\ HealthyPopulation =>
       /\ \A p \in Callers :
            cpc[p] \in {"winner_fetch", "set_primary", "set_stale", "release"} =>
              (lock /\ holder = p)
       /\ (primary # NULL /\ \A p \in Callers : cpc[p] # "set_stale") =>
            /\ stale # NULL
            /\ staleExp >= primaryExp + 60

\* C32 witness: a winner has written both keys and released the lock; later
\* the primary copy has expired and the stale copy of that population is
\* still there.
StaleCopyOutlivedPrimary ==
  \E p \in Callers :
    /\ cpc[p] = "done"
    /\ via[p] = "winner"
    /\ path[p] = <<"get_miss", "lock_won", "fetch", "set_primary", "set_stale", "del">>
    /\ ~lock
    /\ primary = NULL
    /\ stale = ret[p]
    /\ clk >= primaryExp
    /\ clk < staleExp

\* the steps of a path that are iterations of the wait loop
PollSteps == {"poll_miss", "poll_hit", "poll_err"}

\* the steps of a path that are reads of the stale key
StaleSteps == {"stale_hit", "stale_miss", "stale_err"}

\* the caller's SET NX did not create the lock
LockNotAcquired(p) ==
  \E k \in 1..Len(path[p]) : path[p][k] \in {"lock_busy", "lock_err"}

\* C33: a caller polls the primary key at most LOCK_MAX_RETRIES times; a poll
\* that finds a value is its last step and returns that value; a poll on
\* which the store fails is its last poll; a caller in the wait loop always
\* has an iteration left, so the loop ends.
FollowerWaitBounded ==
  \A p \in Callers :
    /\ Cardinality({k \in 1..Len(path[p]) : path[p][k] \in PollSteps}) <= LOCK_MAX_RETRIES
    /\ cpc[p] = "poll" => attempt[p] < LOCK_MAX_RETRIES
    /\ \A k \in 1..Len(path[p]) :
         /\ path[p][k] = "poll_hit" =>
              /\ k = Len(path[p])
              /\ cpc[p] = "done"
              /\ via[p] = "poll"
              /\ ret[p] \in {"v1", "v2"}
         /\ path[p][k] = "poll_err" =>
              IF k = Len(path[p]) THEN cpc[p] = "read_stale"
                                  ELSE path[p][k + 1] \in StaleSteps
         /\ (path[p][k] = "poll_miss" /\ k < Len(path[p])) =>
              \/ path[p][k + 1] \in PollSteps
              \/ path[p][k + 1] \in StaleSteps /\ attempt[p] = LOCK_MAX_RETRIES

\* C33 witness: a follower found nothing at its first poll and the value of
\* the winner at its second.
FollowerServedAtSecondPoll ==
  \E p \in Callers :
    /\ path[p] = <<"get_miss", "lock_busy", "poll_miss", "poll_hit">>
    /\ ret[p] = primary

\* C34: a caller that did not acquire the lock calls fetch_fn only right
\* after a read of the stale key that found nothing or failed, and reads the
\* stale key only right after its last poll; a read that finds a stale value
\* returns it and ends the call, and it finds one whenever the key holds one
\* and the store answers.
FollowerFetchesLast ==
  /\ [] \A p \in Callers :
          LockNotAcquired(p) =>
            \A k \in 1..Len(path[p]) :
              /\ path[p][k] = "fetch" =>
                   /\ k > 1
                   /\ path[p][k - 1] \in {"stale_miss", "stale_err"}
              /\ path[p][k] \in StaleSteps =>
                   \/ path[p][k - 1] = "poll_err"
                   \/ path[p][k - 1] = "poll_miss" /\ attempt[p] = LOCK_MAX_RETRIES
              /\ path[p][k] = "stale_hit" =>
                   /\ k = Len(path[p])
                   /\ cpc[p] = "done"
                   /\ via[p] = "stale"
                   /\ ret[p] \in {"v0", "v1", "v2"}
  /\ [][ \A p \in Callers :
           (cpc[p] = "read_stale" /\ cpc'[p] # "read_stale") =>
             /\ path'[p][Len(path'[p])] = "stale_miss" => stale = NULL
             /\ path'[p][Len(path'[p])] = "stale_hit" =>
                  (ret'[p] = stale /\ fetches' = fetches) ]_vars

\* C34 witness: a follower whose polls found nothing was served the stale
\* copy; fetch_fn was called by the winner only.
FollowerServedStale ==
  \E p \in Callers :
    /\ path[p] = <<"get_miss", "lock_busy", "poll_miss", "poll_miss", "stale_hit">>
    /\ ret[p] = "v0"
    /\ fetches = 1

\* C38: a DEL of the lock key by a returning winner removes only a lock that
\* this winner's own SET NX created.
LockDeletedByHolderOnly ==
  [][ \A p \in Callers :
        (cpc[p] = "release" /\ cpc'[p] = "done" /\ lock /\ ~lock') =>
          holder = p ]_vars

\* C35: a failed style classification or colour extraction does not abort the
\* job: the UPDATE is sent with style "unknown", confidence 0 and an empty
\* palette, and whenever the UPDATE succeeds the row is APPROVED with the
\* detected text, one PROCESSED message is sent and process_job returns Ok;
\* the step leaves the outcome of the detection cascade as it was.
StyleAndColourFailureKeepsJob ==
  [][ (wpc = "persist" /\ wpc' = "poll") =>
        LET id == job.lettering_id
            u  == mlUpdate'
        IN  /\ UNCHANGED <<hfLog, onnxLog, detected>>
            /\ ~u.styleOk => (u.style = "unknown" /\ u.confidence = 0)
            /\ ~u.colorsOk => u.palette = <<>>
            /\ u.dbOk =>
                 /\ jobDone' = [id |-> id, res |-> "Ok"]
                 /\ rows'[id].status = "APPROVED"
                 /\ rows'[id].detected_text = detected
                 /\ published'[id].ml = published[id].ml + 1 ]_vars

\* C35: a job has returned Ok after both the style classification and the
\* colour extraction had failed, and its row is APPROVED
JobCompletedWithoutStyleAndColours ==
  /\ JobCompleted
  /\ ~mlUpdate.styleOk
  /\ ~mlUpdate.colorsOk
  /\ mlUpdate.style = "unknown"
  /\ mlUpdate.palette = <<>>
  /\ rows[jobDone.id].status = "APPROVED"
  /\ rows[jobDone.id].detected_text = detected
  /\ published[jobDone.id].ml = 1

\* C40: the text a job carries from detection to the UPDATE, and the text
\* the UPDATE of process_job writes, is never the empty string.
PersistedTextNeverEmpty ==
  /\ [](wpc = "persist" => detected \notin {NULL, ""})
  /\ [][ (wpc = "persist" /\ wpc' = "poll" /\ mlUpdate'.dbOk) =>
           rows'[job.lettering_id].detected_text # "" ]_vars

\* C40: the secondary tier answered Ok with the empty text of a disabled
\* detector, after the primary tier had answered with an empty text too, and
\* the completed job wrote the placeholder
EmptyAnswersGavePlaceholder ==
  /\ JobCompleted
  /\ hfLog # <<>>
  /\ huggingface_ocr(hfLog).ok
  /\ huggingface_ocr(hfLog).text = ""
  /\ onnxLog # <<>>
  /\ onnxLog[1].ok
  /\ onnxLog[1].detected_text = ""
  /\ rows[jobDone.id].detected_text = TertiaryPlaceholder

\* C36: without a token no request goes to the primary tier for any job:
\* after the image fetch the worker stands at the secondary tier, and the text
\* of the job is the secondary tier's when it is meaningful and the tertiary
\* placeholder otherwise.
NoTokenSkipsPrimaryTier ==
  ~hf_token =>
    /\ hfLog = <<>>
    /\ wpc # "hf"
    /\ wpc = "persist" =>
         /\ Len(onnxLog) = 1
         /\ detected = IF OnnxMeaningful(onnxLog[1])
                         THEN onnxLog[1].detected_text
                         ELSE TertiaryPlaceholder

\* C36: without a token one job has completed on the secondary tier's text
\* and another on the placeholder
NoTokenJobsCompleted ==
  /\ ~hf_token
  /\ JobCompleted
  /\ hfLog = <<>>
  /\ ~OnnxMeaningful(onnxLog[1])
  /\ rows[jobDone.id].detected_text = TertiaryPlaceholder
  /\ \E i \in Ids : rows[i].detected_text = "BAKERY"

\* characters of the text that the match of detect_script puts in block s
CharsOfScript(text, s) == {k \in DOMAIN text : ScriptOf(text[k]) = s}

\* C37: the label detect_script returns has a character count that no other
\* block found in the text exceeds, and it returns no label exactly when no
\* character of the text belongs to a classified block.
DetectScriptPicksMostFrequent ==
  scriptResult # "pending" =>
    /\ scriptResult = "None" <=>
         \A k \in DOMAIN scriptInput : ScriptOf(scriptInput[k]) = "None"
    /\ scriptResult # "None" =>
         /\ CharsOfScript(scriptInput, scriptResult) # {}
         /\ \A k \in DOMAIN scriptInput :
              Cardinality(CharsOfScript(scriptInput, ScriptOf(scriptInput[k])))
                <= Cardinality(CharsOfScript(scriptInput, scriptResult))
                \/ ScriptOf(scriptInput[k]) = "None"

\* C37: a text with two Latin characters after one Devanagari character was
\* labelled Latin
ScriptOfMajorityReturned ==
  /\ scriptInput = <<2325, 65, 122>>
  /\ scriptResult = "Latin"

\* job i is an element of the redis list ml_jobs
Queued(i) == \E k \in DOMAIN queue : MlJobFromJson(queue[k]).lettering_id = i

\* C39: the worker is always inside its loop, a poll that returned no job or
\* an error leaves it polling, it comes back to the poll after every job, and
\* every job in the queue is eventually dequeued.
WorkerLoopNeverStops ==
  /\ [](wpc \in {"poll", "process", "hf", "onnx", "persist"})
  /\ [][ (wpc = "poll" /\ lastPoll' \in {"empty", "error"}) => wpc' = "poll" ]_vars
  /\ (wpc # "poll") ~> (wpc = "poll")
  /\ \A i \in Ids : Queued(i) ~> (job.lettering_id = i)

\* C39: the worker holds the next job after the process_job before it
\* returned Err
NextJobDequeuedAfterFailure ==
  /\ jobDone.res = "Err"
  /\ job # NoJob
  /\ job.lettering_id # jobDone.id
  /\ wpc = "process"

====
